---- MODULE Spec2Model ----
(***************************************************************************)
(* A model of contactfinder.                                               *)
(*   scrap.py         SitemapAnalyzer: the sitemap resolver                *)
(*                    (_get_all_sitemap_urls), find_important_pages with   *)
(*                    its worker pool and clustering step, and the crawl   *)
(*                    fallback (_discover_pages_by_crawling).              *)
(*   scrapandwrap.py  ContactFinderPro: the worker pool of find_contacts   *)
(*                    and _merge_contacts.                                 *)
(*                                                                         *)
(* Numbers are scaled by 100: a priority or confidence of 0.5 is 50, the   *)
(* +0.3 bonus is 30, the +0.05 bonus is 5.                                 *)
(***************************************************************************)
EXTENDS Integers, Sequences, FiniteSets, TLC

VARIABLES
    \* SitemapAnalyzer._get_all_sitemap_urls
    rpc,                  \* "idle" | "loop" | "done"
    sitemaps_to_process,  \* the work queue (list of sitemap URLs)
    processed_sitemaps,   \* set of sitemap URLs
    all_page_infos,       \* list of PageInfo; once rpc = "done", the value returned
    fetchCount,           \* history: fetches of each sitemap URL by the loop
    outcome,              \* history: what the fetch of each sitemap URL gave
    contrib,              \* history: pages contributed by each sitemap URL
    enqueued,             \* history: every URL ever put on the queue
    skippedDup,           \* history: URLs popped when already processed
    lastDoc,              \* history: summary of the document of the latest fetch
    lastOut,              \* history: the URLs the parser returned for lastDoc
    \* find_important_pages, _discover_pages_by_crawling, find_contacts
    pc,                   \* where the entry point stands
    robots_denied,        \* the URLs robots.txt disallows ({} without a parser)
    fc_args,              \* find_contacts: the arguments url and contact_pages
    company_name,         \* find_contacts: the name known before the pool
    pool_owner,           \* which pool is or was running
    tasks,                \* the pages submitted to the pool (page objects)
    futures,              \* one future per task: [state, kind, value]
    collected,            \* analyzed_pages / contacts: the list the collector appends to
    pool_base,            \* history: length of collected when the pool started
    result,               \* the record find_important_pages returns
    \* _discover_pages_by_crawling: the frontier loop
    to_visit,             \* the frontier: list of (url, depth) entries
    visited,              \* set of URLs
    discovered_pages,     \* list of PageInfo
    offsite_links,        \* history: URLs the link loop dropped for their network location
    \* ContactFinderPro._merge_contacts
    mpc,                  \* "idle" | "call" | "returned"
    contacts,             \* the argument: a list of Contact
    final_contact,        \* the value returned
    \* ContactFinderPro.extract_contacts_from_page and its parsers
    epc,                  \* "idle" | the function called | "returned"
    soup,                 \* the parsed page the function reads
    arg,                  \* the other argument of the call
    ret,                  \* the value returned
    \* ContactFinderPro._enrich_contact_from_alternative_sources(final_contact)
    npc,                  \* "idle" | "call" | "probe" | "guess" | "returned"
    directory,            \* the directory of the loop: 1, 2 (0 outside the loop)
    fetched,              \* history: calls of _fetch_url made by the enrichment
    potential_emails,     \* the attribute contact.potential_emails (<<>> while unset)
    contact_at_call       \* history: the Contact as the enrichment received it

rvars == <<rpc, sitemaps_to_process, processed_sitemaps, all_page_infos,
           fetchCount, outcome, contrib, enqueued, skippedDup, lastDoc, lastOut>>
pvars == <<pc, robots_denied, fc_args, company_name, pool_owner, tasks, futures, collected,
           pool_base, result>>
cvars == <<to_visit, visited, discovered_pages, offsite_links>>
mvars == <<mpc, contacts, final_contact>>
xvars == <<epc, soup, arg, ret>>
evars == <<npc, directory, fetched, potential_emails, contact_at_call>>

vars == <<rvars, pvars, cvars, mvars, xvars, evars>>

----------------------------------------------------------------------------
(* Generic helpers *)

Range(s) == {s[i] : i \in 1..Len(s)}
Min(a, b) == IF a <= b THEN a ELSE b
Max(a, b) == IF a >= b THEN a ELSE b

RECURSIVE SeqsUpTo(_, _)
SeqsUpTo(S, n) ==
    IF n = 0 THEN {<<>>}
    ELSE LET shorter == SeqsUpTo(S, n - 1)
         IN  shorter \cup {Append(s, x) : s \in {t \in shorter : Len(t) = n - 1}, x \in S}

NoDupSeqs(S) == {s \in SeqsUpTo(S, Cardinality(S)) :
                    \A i, j \in 1..Len(s) : i # j => s[i] # s[j]}

----------------------------------------------------------------------------
(* Bounds *)

MaxChildren  == 2    \* <sitemap> entries in one sitemap index
MaxEntries   == 2    \* <url> entries in one leaf sitemap
MaxContacts  == 3    \* Contacts handed to one merge
MaxSitePages == 5    \* pages the resolver hands to find_important_pages
MaxContactPages == 2 \* pages handed to find_contacts
Workers      == 2    \* concurrency / max_threads: width of a worker pool
MaxLinks     == 2    \* <a href> elements on one crawled page
max_pages    == 3    \* SitemapAnalyzer(max_pages=...)

----------------------------------------------------------------------------
(* Program constants *)

DefaultPriority == 50   \* priority of an entry without <priority>
CategoryBonus   == 30   \* += 0.3 for contact and about
n_clusters      == 5    \* _cluster_pages(page_infos, n_clusters=5)
max_analysis    == 50   \* find_important_pages(base_url, max_analysis=50)
max_depth       == 2    \* _discover_pages_by_crawling(..., max_depth=2)
TopPages        == 5    \* find_contacts: sorted_pages[:min(5, len(sorted_pages))]
Absent == 0             \* a tag that is not in the entry
None == 0               \* Python None
EmptyStr == -1          \* Python "" (false like None)
Truthy(v) == v > 0

----------------------------------------------------------------------------
(* URLs.  A URL is its network location and the list of the words of its    *)
(* path (the path split at '/', '-' and '_').                               *)

U(netloc, path) == [netloc |-> netloc, path |-> path]

Home      == U("site", <<>>)
ContactUs == U("site", <<"contact", "us">>)
BlogPost  == U("site", <<"blog", "post">>)
Support   == U("site", <<"support">>)
AboutPage == U("site", <<"about">>)
LegalPage == U("site", <<"legal">>)
TeamPage  == U("site", <<"team">>)
Offsite   == U("other", <<"contact">>)

base_url == Home

\* self.contact_keywords, as far as the words of the model go.
contact_keywords == {"contact", "contacts", "support", "about", "legal", "help", "mail"}

\* SitemapAnalyzer._infer_content_type_from_url, first pass: \bkw\b on the
\* normalized path.
HasWord(url, kws) == \E i \in 1..Len(url.path) : url.path[i] \in kws
HasPair(url, a, b) == \E i \in 1..(Len(url.path) - 1) : url.path[i] = a /\ url.path[i + 1] = b

\* The first pass with the test for team before the test for legal.
WholeWordPass_TeamBeforeLegal(url) ==
    IF HasWord(url, {"contact"}) \/ HasPair(url, "nous", "contacter") THEN "contact"
    ELSE IF HasWord(url, {"propos", "about"}) \/ HasPair(url, "qui", "sommes") THEN "about"
    ELSE IF HasWord(url, {"equipe", "team", "staff"}) THEN "team"
    ELSE IF HasWord(url, {"legal", "mentions", "terms"}) THEN "legal"
    ELSE "unknown"

WholeWordPass(url) ==
    IF HasWord(url, {"contact"}) \/ HasPair(url, "nous", "contacter") THEN "contact"
    ELSE IF HasWord(url, {"propos", "about"}) \/ HasPair(url, "qui", "sommes") THEN "about"
    ELSE IF HasWord(url, {"legal", "mentions", "terms"}) THEN "legal"
    ELSE IF HasWord(url, {"equipe", "team", "staff"}) THEN "team"
    ELSE "unknown"

\* Second pass: re.search(pattern, url) for self.url_patterns, in list order
\* (contact, about, team, legal).  Stems(w): which of the patterns' plain
\* alternatives occur inside the word w.
Stems(w) ==
    CASE w \in {"contact", "contacts", "contacter"} -> {"contact"}
      [] w \in {"team", "teams"} -> {"team"}
      [] w \in {"legal", "legales"} -> {"legal"}
      [] w \in {"equipe", "staff", "organization", "terms", "conditions"} -> {w}
      [] OTHER -> {}

HasStem(url, stems) == \E i \in 1..Len(url.path) : Stems(url.path[i]) \cap stems # {}

PatternPass(url) ==
    IF HasStem(url, {"contact"}) THEN "contact"
    ELSE IF HasPair(url, "a", "propos") \/ HasPair(url, "about", "us") THEN "about"
    ELSE IF HasStem(url, {"equipe", "team", "staff", "organization"}) THEN "team"
    ELSE IF HasStem(url, {"legal", "terms", "conditions"}) THEN "legal"
    ELSE "unknown"

infer_content_type_from_url(url) ==
    IF WholeWordPass(url) # "unknown" THEN WholeWordPass(url) ELSE PatternPass(url)

NoCluster == -1

\* PageInfo(url=..., priority=..., content_type=...) as _parse_sitemap builds
\* it.  raw is a history field: the priority the entry itself states
\* (DefaultPriority when it states none).
PageInfo(url, priority, raw) ==
    LET content_type == infer_content_type_from_url(url)
    IN  [url |-> url,
         content_type |-> content_type,
         priority |-> IF content_type \in {"contact", "about"}
                      THEN priority + CategoryBonus ELSE priority,
         cluster |-> NoCluster,
         raw |-> raw]

\* sort(key=lambda p: p.priority, reverse=True): stable.
RECURSIVE InsertByPriority(_, _)
InsertByPriority(sorted, p) ==
    IF sorted = <<>> THEN <<p>>
    ELSE IF Head(sorted).priority >= p.priority
         THEN <<Head(sorted)>> \o InsertByPriority(Tail(sorted), p)
         ELSE <<p>> \o sorted

RECURSIVE SortByPriority(_)
SortByPriority(ps) ==
    IF ps = <<>> THEN <<>>
    ELSE InsertByPriority(SortByPriority(SubSeq(ps, 1, Len(ps) - 1)), ps[Len(ps)])

----------------------------------------------------------------------------
(* Sitemap documents *)

\* Sitemap URLs.  The second one has no ".xml" in it.
SitemapUrls == {"a.xml", "sm2"}
HasXml(u) == u \in {"a.xml"}

\* Page URLs listed in the sitemaps of the model.
PageUrls == {ContactUs, BlogPost}

\* The priorities a <priority> tag can carry in the model.
TagPriorities == {90}

\* A <url> entry of a leaf sitemap: <loc>, optional <lastmod>, optional
\* <priority>, in that order.  (In the model only the blog entry carries a
\* <lastmod>.)
Entries == {e \in [loc : PageUrls, lastmod : BOOLEAN, prio : {Absent} \cup TagPriorities] :
               e.lastmod => e.loc = BlogPost}

\* A fetched document.  wf: the text is well-formed XML.  ns: the root
\* carries the sitemaps.org default namespace.
FailDoc == [kind |-> "fail", wf |-> FALSE, ns |-> FALSE, children |-> <<>>, entries |-> <<>>]
DocShapes == {<<TRUE, TRUE>>, <<TRUE, FALSE>>, <<FALSE, TRUE>>}
IndexDocs == {[kind |-> "index", wf |-> sh[1], ns |-> sh[2], children |-> c, entries |-> <<>>] :
                 sh \in DocShapes, c \in SeqsUpTo(SitemapUrls, MaxChildren)}
LeafDocs == {[kind |-> "leaf", wf |-> sh[1], ns |-> sh[2], children |-> <<>>, entries |-> e] :
                 sh \in DocShapes, e \in SeqsUpTo(Entries, MaxEntries)}

\* What the histories keep of a document: its kind, whether it parses, and
\* the URLs it lists in its <loc> tags.
Locs(entries) == [i \in 1..Len(entries) |-> entries[i].loc]
Summary(doc) == [kind |-> doc.kind, wf |-> doc.wf,
                 locs |-> IF doc.kind = "index" THEN doc.children ELSE Locs(doc.entries)]
NoDoc == [kind |-> "none", wf |-> FALSE, locs |-> <<>>]
Urls(page_infos) == [i \in 1..Len(page_infos) |-> page_infos[i].url]

OwnPriority(e) == IF e.prio = Absent THEN DefaultPriority ELSE e.prio

----------------------------------------------------------------------------
(* SitemapAnalyzer._parse_sitemap *)

\* The ElementTree pass.  url_elem.find('./sm:loc', ns) or url_elem.find('./loc'):
\* an Element without children is false, so under the namespace the first
\* operand is dropped and the second finds nothing: no entry is kept.
XmlPass(doc) ==
    IF doc.ns THEN <<>>
    ELSE [i \in 1..Len(doc.entries) |->
             PageInfo(doc.entries[i].loc, OwnPriority(doc.entries[i]), OwnPriority(doc.entries[i]))]

\* Least element of a set of indexes, or 0 when there is none.
FirstOf(hits) == IF hits = {} THEN 0 ELSE CHOOSE j \in hits : \A k \in hits : j <= k

\* Index of the first entry at or after i that holds a <lastmod> (a <priority>).
FirstLastmodFrom(entries, i) == FirstOf({j \in i..Len(entries) : entries[j].lastmod})
FirstPriorityFrom(entries, i) == FirstOf({j \in i..Len(entries) : entries[j].prio # Absent})

\* The regex pass: re.findall of
\*   <url>\s*<loc>(.*?)</loc>(?:.*?<lastmod>(.*?)</lastmod>)?(?:.*?<priority>(.*?)</priority>)?
\* with DOTALL.  A match starts at entry i; the lazy .*? of each optional group
\* runs to the first such tag anywhere after, and the next match starts after
\* the end of this one.
RECURSIVE RegexPass(_, _)
RegexPass(entries, i) ==
    IF i > Len(entries) THEN <<>>
    ELSE LET lm == FirstLastmodFrom(entries, i)
             from == IF lm = 0 THEN i ELSE lm
             pr == FirstPriorityFrom(entries, from)
             last == IF pr # 0 THEN pr ELSE from
             priority == IF pr # 0 THEN entries[pr].prio ELSE DefaultPriority
         IN  <<PageInfo(entries[i].loc, priority, OwnPriority(entries[i]))>>
                 \o RegexPass(entries, last + 1)

parse_sitemap(doc) ==
    IF ~doc.wf THEN <<>>                       \* ET.ParseError: logged
    ELSE IF XmlPass(doc) # <<>> THEN XmlPass(doc)
    ELSE RegexPass(doc.entries, 1)

----------------------------------------------------------------------------
(* SitemapAnalyzer._parse_sitemap_index *)

parse_sitemap_index(doc) ==
    IF ~doc.wf THEN SelectSeq(doc.children, HasXml)   \* the regex fallback
    ELSE IF doc.ns THEN <<>>      \* the childless <loc> Element is false
    ELSE doc.children

----------------------------------------------------------------------------
(* SitemapAnalyzer._get_all_sitemap_urls: the work-queue loop *)

ZeroCount == [u \in SitemapUrls |-> 0]

\* After _discover_sitemaps returned list(all_sitemaps).
InitResolve ==
    /\ \E seeds \in NoDupSeqs(SitemapUrls) :
          /\ sitemaps_to_process = seeds
          /\ enqueued = Range(seeds)
          /\ rpc = IF seeds = <<>> THEN "done" ELSE "loop"
    /\ processed_sitemaps = {}
    /\ all_page_infos = <<>>
    /\ fetchCount = ZeroCount
    /\ outcome = [u \in SitemapUrls |-> "unfetched"]
    /\ contrib = ZeroCount
    /\ skippedDup = {}
    /\ lastDoc = NoDoc
    /\ lastOut = <<>>

Head_url == Head(sitemaps_to_process)

\* The test for a processed URL made on the head of the queue before the
\* pop: the URL stays where it is.
SkipProcessed_BeforePop ==
    /\ rpc = "loop" /\ sitemaps_to_process # <<>>
    /\ Head_url \in processed_sitemaps
    /\ sitemaps_to_process' = sitemaps_to_process
    /\ skippedDup' = skippedDup \cup {Head_url}
    /\ UNCHANGED <<rpc, processed_sitemaps, all_page_infos, fetchCount, outcome,
                   contrib, enqueued, lastDoc, lastOut, pvars, cvars, mvars, xvars, evars>>

\* if sitemap_url in processed_sitemaps: continue
SkipProcessed ==
    /\ rpc = "loop" /\ sitemaps_to_process # <<>>
    /\ Head_url \in processed_sitemaps
    /\ sitemaps_to_process' = Tail(sitemaps_to_process)
    /\ skippedDup' = skippedDup \cup {Head_url}
    /\ UNCHANGED <<rpc, processed_sitemaps, all_page_infos, fetchCount, outcome,
                   contrib, enqueued, lastDoc, lastOut, pvars, cvars, mvars, xvars, evars>>

Visit_NoSeenCheck(doc) ==
    /\ rpc = "loop" /\ sitemaps_to_process # <<>>
    /\ processed_sitemaps' = processed_sitemaps \cup {Head_url}
    /\ fetchCount' = [fetchCount EXCEPT ![Head_url] = @ + 1]
    /\ lastDoc' = Summary(doc)
    /\ UNCHANGED <<skippedDup, pvars, cvars, mvars, xvars, evars>>

\* processed_sitemaps.add(sitemap_url); content, _ = self._fetch_url(sitemap_url)
Visit(doc) ==
    /\ rpc = "loop" /\ sitemaps_to_process # <<>>
    /\ Head_url \notin processed_sitemaps
    /\ processed_sitemaps' = processed_sitemaps \cup {Head_url}
    /\ fetchCount' = [fetchCount EXCEPT ![Head_url] = @ + 1]
    /\ lastDoc' = Summary(doc)
    /\ UNCHANGED <<skippedDup, pvars, cvars, mvars, xvars, evars>>

FetchFails_Abort ==
    /\ Visit(FailDoc)
    /\ rpc' = "done"
    /\ outcome' = [outcome EXCEPT ![Head_url] = "fail"]
    /\ lastOut' = <<>>
    /\ UNCHANGED <<sitemaps_to_process, all_page_infos, contrib, enqueued>>

\* if not content: continue
FetchFails ==
    /\ Visit(FailDoc)
    /\ sitemaps_to_process' = Tail(sitemaps_to_process)
    /\ UNCHANGED rpc
    /\ outcome' = [outcome EXCEPT ![Head_url] = "fail"]
    /\ lastOut' = <<>>
    /\ UNCHANGED <<all_page_infos, contrib, enqueued>>

ProcessIndex ==
    \E doc \in IndexDocs :
        LET child_sitemaps == parse_sitemap_index(doc)
        IN  /\ Visit(doc)
            /\ sitemaps_to_process' = Tail(sitemaps_to_process) \o child_sitemaps
            /\ enqueued' = enqueued \cup Range(child_sitemaps)
            /\ outcome' = [outcome EXCEPT ![Head_url] =
                              IF doc.wf THEN "index" ELSE "malformed_index"]
            /\ lastOut' = child_sitemaps
            /\ UNCHANGED <<rpc, all_page_infos, contrib>>

ProcessLeaf ==
    \E doc \in LeafDocs :
        LET page_infos == parse_sitemap(doc)
        IN  /\ Visit(doc)
            /\ sitemaps_to_process' = Tail(sitemaps_to_process)
            /\ all_page_infos' = all_page_infos \o page_infos
            /\ contrib' = [contrib EXCEPT ![Head_url] = @ + Len(page_infos)]
            /\ outcome' = [outcome EXCEPT ![Head_url] =
                              IF doc.wf THEN "leaf" ELSE "malformed_leaf"]
            /\ lastOut' = Urls(page_infos)
            /\ UNCHANGED <<rpc, enqueued>>

\* while sitemaps_to_process: ... return all_page_infos
ResolveReturn ==
    /\ rpc = "loop" /\ sitemaps_to_process = <<>>
    /\ rpc' = "done"
    /\ UNCHANGED <<sitemaps_to_process, processed_sitemaps, all_page_infos, fetchCount,
                   outcome, contrib, enqueued, skippedDup, lastDoc, lastOut,
                   pvars, cvars, mvars, xvars, evars>>

NextResolve ==
    \/ SkipProcessed
    \/ FetchFails
    \/ ProcessIndex
    \/ ProcessLeaf
    \/ ResolveReturn


\* The resolver is not running.
IdleResolve ==
    /\ rpc = "idle"
    /\ sitemaps_to_process = <<>>
    /\ processed_sitemaps = {}
    /\ all_page_infos = <<>>
    /\ fetchCount = ZeroCount
    /\ outcome = [u \in SitemapUrls |-> "unfetched"]
    /\ contrib = ZeroCount
    /\ enqueued = {}
    /\ skippedDup = {}
    /\ lastDoc = NoDoc
    /\ lastOut = <<>>

----------------------------------------------------------------------------
(* Worker pools.                                                           *)
(* with ThreadPoolExecutor(max_workers=...) as executor:                   *)
(*     future_to_page = {executor.submit(worker, page): page for page ...} *)
(*     for future in as_completed(future_to_page): try: ... except: log    *)
(* The three pools (find_important_pages, _discover_pages_by_crawling,     *)
(* find_contacts) share this frame; pc says which one is running.          *)

NoContact == [absent |-> TRUE]    \* a returned None

NoArgs == [url |-> 0, contact_pages |-> <<>>]

NoResult == [contact_pages |-> <<>>, about_pages |-> <<>>, all_analyzed |-> <<>>,
             cluster_themes |-> <<>>, has_themes |-> FALSE]

PagePools == {"analyze_pool", "crawl_pool"}
PoolPhases == PagePools \cup {"fc_pool"}

\* A future: pending (queued), running, done (its result or exception is
\* set), collected (as_completed has yielded it and the loop body has run).
\* kind: "ok" the worker returned a value, "none" it returned None,
\* "raised" the future holds an exception.
Pending == [state |-> "pending", kind |-> "unset", value |-> NoContact]
Done(kind, value) == [state |-> "done", kind |-> kind, value |-> value]

Running == {i \in 1..Len(futures) : futures[i].state = "running"}
AllCollected == \A i \in 1..Len(futures) : futures[i].state = "collected"

\* executor.submit for every page, in list order.
Submit(owner, pages, base) ==
    /\ pool_owner' = owner
    /\ tasks' = pages
    /\ futures' = [i \in 1..Len(pages) |-> Pending]
    /\ collected' = base
    /\ pool_base' = Len(base)

\* A free worker thread takes the oldest queued task.
StartTask ==
    /\ pc \in PoolPhases
    /\ Cardinality(Running) < Workers
    /\ \E i \in 1..Len(futures) :
          /\ futures[i].state = "pending"
          /\ \A j \in 1..(i - 1) : futures[j].state # "pending"
          /\ futures' = [futures EXCEPT ![i].state = "running"]
    /\ UNCHANGED <<pc, robots_denied, fc_args, company_name, pool_owner, tasks, collected,
                   pool_base, result, rvars, cvars, mvars, xvars, evars>>

\* _analyze_page_for_contacts returns None: the fetch gave nothing
\* (l.273-275), or the analysis raised and the error was logged (l.298-300).
WorkerReturnsNone ==
    /\ pc \in PagePools
    /\ \E i \in Running : futures' = [futures EXCEPT ![i] = Done("none", NoContact)]
    /\ UNCHANGED <<pc, robots_denied, fc_args, company_name, pool_owner, tasks, collected,
                   pool_base, result, rvars, cvars, mvars, xvars, evars>>

\* _analyze_page_for_contacts: an exception that neither handler of the
\* worker catches (_fetch_url catches RequestException only, and its call
\* stands before the try).  The executor stores it in the future.
WorkerRaises ==
    /\ pc \in PagePools
    /\ \E i \in Running : futures' = [futures EXCEPT ![i] = Done("raised", NoContact)]
    /\ UNCHANGED <<pc, robots_denied, fc_args, company_name, pool_owner, tasks, collected,
                   pool_base, result, rvars, cvars, mvars, xvars, evars>>

\* What _infer_content_type_from_content can answer.
ContentClasses == {"contact", "about", "unknown"}

WorkerAnalyzes_Overwrites ==
    /\ pc \in PagePools
    /\ \E i \in Running, cls \in ContentClasses :
          /\ tasks' = [tasks EXCEPT ![i].content_type = cls]
          /\ futures' = [futures EXCEPT ![i] = Done("ok", NoContact)]
    /\ UNCHANGED <<pc, robots_denied, fc_args, company_name, pool_owner, collected,
                   pool_base, result, rvars, cvars, mvars, xvars, evars>>

\* _analyze_page_for_contacts, l.277-297: the page object is updated in place
\* and returned; the content type is refined only when it is 'unknown'.
WorkerAnalyzes ==
    /\ pc \in PagePools
    /\ \E i \in Running, cls \in ContentClasses :
          /\ tasks[i].content_type # "unknown" => cls = "unknown"
          /\ tasks' = [tasks EXCEPT ![i].content_type =
                          IF @ = "unknown" THEN cls ELSE @]
          /\ futures' = [futures EXCEPT ![i] = Done("ok", NoContact)]
    /\ UNCHANGED <<pc, robots_denied, fc_args, company_name, pool_owner, collected,
                   pool_base, result, rvars, cvars, mvars, xvars, evars>>

\* The value the collector gets from future.result(): the page object of
\* the task for the page pools, the Contact for find_contacts (which takes
\* the company name known so far when it has none of its own).
Collected(i) ==
    IF pc \in PagePools THEN tasks[i]
    ELSE IF Truthy(company_name) /\ ~Truthy(futures[i].value.company_name)
         THEN [futures[i].value EXCEPT !.company_name = company_name]
         ELSE futures[i].value

\* A collector that appends the result and leaves the future among those
\* as_completed still has to yield.
CollectResult_KeepsFuture ==
    /\ pc \in PoolPhases
    /\ \E i \in 1..Len(futures) :
          /\ futures[i].state = "done" /\ futures[i].kind \in {"ok", "none"}
          /\ collected' = IF futures[i].kind = "ok"
                          THEN Append(collected, Collected(i)) ELSE collected
          /\ futures' = IF futures[i].kind = "ok"
                        THEN futures ELSE [futures EXCEPT ![i].state = "collected"]
    /\ UNCHANGED <<pc, robots_denied, fc_args, company_name, pool_owner, tasks,
                   pool_base, result, rvars, cvars, mvars, xvars, evars>>

\* for future in as_completed(...): result = future.result();
\* if result: append
CollectResult ==
    /\ pc \in PoolPhases
    /\ \E i \in 1..Len(futures) :
          /\ futures[i].state = "done" /\ futures[i].kind \in {"ok", "none"}
          /\ collected' = IF futures[i].kind = "ok"
                          THEN Append(collected, Collected(i)) ELSE collected
          /\ futures' = [futures EXCEPT ![i].state = "collected"]
    /\ UNCHANGED <<pc, robots_denied, fc_args, company_name, pool_owner, tasks,
                   pool_base, result, rvars, cvars, mvars, xvars, evars>>

CollectRaised_Propagates ==
    /\ pc \in PoolPhases
    /\ \E i \in 1..Len(futures) :
          /\ futures[i].state = "done" /\ futures[i].kind = "raised"
          /\ futures' = [futures EXCEPT ![i].state = "collected"]
    /\ pc' = "raised"
    /\ UNCHANGED <<robots_denied, fc_args, company_name, pool_owner, tasks, collected,
                   pool_base, result, rvars, cvars, mvars, xvars, evars>>

\* except Exception as e: self.logger.error(...)
CollectRaised ==
    /\ pc \in PoolPhases
    /\ \E i \in 1..Len(futures) :
          /\ futures[i].state = "done" /\ futures[i].kind = "raised"
          /\ futures' = [futures EXCEPT ![i].state = "collected"]
    /\ UNCHANGED <<pc, robots_denied, fc_args, company_name, pool_owner, tasks, collected,
                   pool_base, result, rvars, cvars, mvars, xvars, evars>>

----------------------------------------------------------------------------
(* SitemapAnalyzer.find_important_pages *)

\* self._is_allowed(p.url, robots_parser)
is_allowed(url) == url \notin robots_denied

\* all_pages = self._get_all_sitemap_urls(base_url); if not all_pages:
\*     return self._discover_pages_by_crawling(base_url, robots_parser)
BranchToCrawl_Always ==
    /\ pc = "resolved"
    /\ pc' = "crawl_loop"
    /\ to_visit' = <<[url |-> base_url, depth |-> 0, kw |-> FALSE, src |-> base_url, pos |-> 0]>>
    /\ visited' = {}
    /\ discovered_pages' = <<>>
    /\ offsite_links' = {}
    /\ UNCHANGED <<robots_denied, fc_args, company_name, pool_owner, tasks, futures, collected,
                   pool_base, result, rvars, mvars, xvars, evars>>

BranchToCrawl ==
    /\ pc = "resolved"
    /\ all_page_infos = <<>>
    /\ pc' = "crawl_loop"
    /\ to_visit' = <<[url |-> base_url, depth |-> 0, kw |-> FALSE, src |-> base_url, pos |-> 0]>>
    /\ visited' = {}
    /\ discovered_pages' = <<>>
    /\ offsite_links' = {}
    /\ UNCHANGED <<robots_denied, fc_args, company_name, pool_owner, tasks, futures, collected,
                   pool_base, result, rvars, mvars, xvars, evars>>

\* The robots.txt filter, the sort by priority, the cut at max_analysis and
\* the submission of the pages to the pool.
SubmitPages ==
    /\ pc = "resolved"
    /\ all_page_infos # <<>>
    /\ LET allowed == SelectSeq(all_page_infos, LAMBDA p : is_allowed(p.url))
           all_pages == SortByPriority(allowed)
           pages_to_analyze == SubSeq(all_pages, 1, Min(max_analysis, Len(all_pages)))
       IN  Submit("analyze", pages_to_analyze, <<>>)
    /\ pc' = "analyze_pool"
    /\ UNCHANGED <<robots_denied, fc_args, company_name, result, rvars, cvars, mvars, xvars, evars>>

\* _cluster_pages.  KMeans gives every page one of n_clusters labels.  The
\* paths of the pages of the model differ pairwise, so no cluster stays
\* empty; which pages share a cluster is open.  Cluster ids are numbered in
\* the order of the first page of each cluster.
Labelings(n) ==
    {l \in [1..n -> 0..(n_clusters - 1)] :
        /\ \A c \in 0..(n_clusters - 1) : \E i \in 1..n : l[i] = c
        /\ \A i \in 1..n : \A c \in 0..(l[i] - 1) : \E j \in 1..(i - 1) : l[j] = c}

\* re.findall(r'[a-zA-Z]+', path.lower()) over the pages of cluster c.
RECURSIVE ClusterWords(_, _, _)
ClusterWords(pages, labels, c) ==
    IF pages = <<>> THEN <<>>
    ELSE LET n == Len(pages)
         IN  ClusterWords(SubSeq(pages, 1, n - 1), labels, c)
                 \o (IF labels[n] = c THEN pages[n].url.path ELSE <<>>)

\* Counter(words).most_common(k): by count, largest first, equal counts in
\* the order of first occurrence.
RECURSIVE Dedup(_)
Dedup(s) ==
    IF s = <<>> THEN <<>>
    ELSE LET d == Dedup(SubSeq(s, 1, Len(s) - 1))
         IN  IF s[Len(s)] \in Range(d) THEN d ELSE Append(d, s[Len(s)])

Count(words, w) == Cardinality({i \in 1..Len(words) : words[i] = w})

RECURSIVE InsertByCount(_, _, _)
InsertByCount(sorted, w, words) ==
    IF sorted = <<>> THEN <<w>>
    ELSE IF Count(words, Head(sorted)) >= Count(words, w)
         THEN <<Head(sorted)>> \o InsertByCount(Tail(sorted), w, words)
         ELSE <<w>> \o sorted

RECURSIVE SortByCount(_, _)
SortByCount(ws, words) ==
    IF ws = <<>> THEN <<>>
    ELSE InsertByCount(SortByCount(SubSeq(ws, 1, Len(ws) - 1), words), ws[Len(ws)], words)

TopWords == 5     \* word_counts.most_common(5)

most_common(words, k) ==
    LET ranked == SortByCount(Dedup(words), words)
    IN  SubSeq(ranked, 1, Min(k, Len(ranked)))

\* The pool is over and _cluster_pages raises: TfidfVectorizer has no
\* vocabulary for an empty list, KMeans refuses fewer samples than clusters.
\* Nothing catches the ValueError.
ClusterRaises ==
    /\ pc = "analyze_pool" /\ AllCollected
    /\ Len(collected) < n_clusters
    /\ pc' = "raised"
    /\ UNCHANGED <<robots_denied, fc_args, company_name, pool_owner, tasks, futures, collected,
                   pool_base, result, rvars, cvars, mvars, xvars, evars>>

\* The return with the members of the keyword clusters added whether or not
\* a page of type contact was found.
ClusterAndReturn_AlwaysRescues ==
    /\ pc = "analyze_pool" /\ AllCollected
    /\ Len(collected) >= n_clusters
    /\ \E labels \in Labelings(Len(collected)) :
          LET analyzed_pages == [i \in 1..Len(collected) |->
                                    [collected[i] EXCEPT !.cluster = labels[i]]]
              cluster_themes == [c \in 0..(n_clusters - 1) |->
                                    most_common(ClusterWords(analyzed_pages, labels, c), TopWords)]
              by_type == SelectSeq(analyzed_pages, LAMBDA p : p.content_type = "contact")
              about_pages == SelectSeq(analyzed_pages, LAMBDA p : p.content_type = "about")
              potential_contact_clusters ==
                  {c \in 0..(n_clusters - 1) :
                      \E t \in Range(cluster_themes[c]) : t \in contact_keywords}
              contact_pages ==
                  by_type \o SelectSeq(analyzed_pages,
                                       LAMBDA p : p.cluster \in potential_contact_clusters)
          IN  /\ collected' = analyzed_pages
              /\ result' = [contact_pages |-> contact_pages, about_pages |-> about_pages,
                            all_analyzed |-> analyzed_pages,
                            cluster_themes |-> cluster_themes, has_themes |-> TRUE]
    /\ pc' = "returned"
    /\ UNCHANGED <<robots_denied, fc_args, company_name, pool_owner, tasks, futures,
                   pool_base, rvars, cvars, mvars, xvars, evars>>

\* The pool is over: clustering, the contact and about lists, the rescue of
\* contact pages from the clusters whose themes hold a contact keyword, and
\* the returned record.
ClusterAndReturn ==
    /\ pc = "analyze_pool" /\ AllCollected
    /\ Len(collected) >= n_clusters
    /\ \E labels \in Labelings(Len(collected)) :
          LET analyzed_pages == [i \in 1..Len(collected) |->
                                    [collected[i] EXCEPT !.cluster = labels[i]]]
              cluster_themes == [c \in 0..(n_clusters - 1) |->
                                    most_common(ClusterWords(analyzed_pages, labels, c), TopWords)]
              by_type == SelectSeq(analyzed_pages, LAMBDA p : p.content_type = "contact")
              about_pages == SelectSeq(analyzed_pages, LAMBDA p : p.content_type = "about")
              potential_contact_clusters ==
                  {c \in 0..(n_clusters - 1) :
                      \E t \in Range(cluster_themes[c]) : t \in contact_keywords}
              contact_pages ==
                  IF by_type # <<>> THEN by_type
                  ELSE SelectSeq(analyzed_pages,
                                 LAMBDA p : p.cluster \in potential_contact_clusters)
          IN  /\ collected' = analyzed_pages
              /\ result' = [contact_pages |-> contact_pages, about_pages |-> about_pages,
                            all_analyzed |-> analyzed_pages,
                            cluster_themes |-> cluster_themes, has_themes |-> TRUE]
    /\ pc' = "returned"
    /\ UNCHANGED <<robots_denied, fc_args, company_name, pool_owner, tasks, futures,
                   pool_base, rvars, cvars, mvars, xvars, evars>>

\* find_important_pages is called; the resolver has returned all_page_infos.
\* SiteCatalog: what the sitemaps of the site list, as _parse_sitemap gives it.
SiteCatalog ==
    << PageInfo(Support, 50, 50), PageInfo(BlogPost, 90, 90), PageInfo(AboutPage, 50, 50),
       PageInfo(LegalPage, 50, 50), PageInfo(TeamPage, 20, 20), PageInfo(ContactUs, 50, 50) >>

\* _get_all_sitemap_urls has returned page_infos.
Resolved(page_infos) ==
    /\ rpc = "done"
    /\ all_page_infos = page_infos
    /\ sitemaps_to_process = <<>>
    /\ processed_sitemaps = {}
    /\ fetchCount = ZeroCount
    /\ outcome = [u \in SitemapUrls |-> "unfetched"]
    /\ contrib = ZeroCount
    /\ enqueued = {}
    /\ skippedDup = {}
    /\ lastDoc = NoDoc
    /\ lastOut = <<>>

RobotsRules == {{}, {ContactUs}}

IdleCrawl ==
    /\ to_visit = <<>>
    /\ visited = {}
    /\ discovered_pages = <<>>
    /\ offsite_links = {}

IdlePool ==
    /\ fc_args = NoArgs
    /\ company_name = None
    /\ pool_owner = "none"
    /\ tasks = <<>>
    /\ futures = <<>>
    /\ collected = <<>>
    /\ pool_base = 0
    /\ result = NoResult

IdlePages ==
    /\ pc = "idle"
    /\ robots_denied = {}
    /\ IdlePool

InitPages ==
    /\ pc = "resolved"
    /\ robots_denied \in RobotsRules
    /\ IdlePool
    /\ IdleCrawl
    /\ \E n \in 0..Min(MaxSitePages, Len(SiteCatalog)) :
          Resolved(SubSeq(SiteCatalog, 1, n))

----------------------------------------------------------------------------
(* SitemapAnalyzer._discover_pages_by_crawling *)

\* An <a href> of a crawled page: the URL urljoin gives for it, and whether
\* the href is empty or starts with '#' or 'javascript:'.
Link(url, skip) == [url |-> url, skip |-> skip]
SiteLinks == {Link(ContactUs, FALSE), Link(BlogPost, FALSE), Link(Support, FALSE),
              Link(Offsite, FALSE), Link(Home, TRUE)}

\* any(kw in href.lower() for kw in self.contact_keywords)
KeywordHref(link) == HasWord(link.url, contact_keywords)

\* The PageInfo of a crawled page and its priority.
CrawledPage(url, depth) ==
    LET content_type == infer_content_type_from_url(url)
    IN  [url |-> url,
         content_type |-> content_type,
         priority |-> IF content_type \in {"contact", "about"} THEN 90
                      ELSE IF depth = 0 THEN 80
                      ELSE 50 - depth * 10,
         cluster |-> NoCluster,
         raw |-> Absent]

\* A frontier entry (next_url, depth).  kw, src and pos are history fields:
\* whether the href held a keyword, the page the link was found on and the
\* position of the link on that page.
Entry(url, depth, kw, src, pos) ==
    [url |-> url, depth |-> depth, kw |-> kw, src |-> src, pos |-> pos]

Enqueue_AtBack(frontier, link, entry) ==
    Append(frontier, entry)

\* to_visit.insert(0, (next_url, depth + 1)) for a keyword href, else
\* to_visit.append((next_url, depth + 1))
Enqueue(frontier, link, entry) ==
    IF KeywordHref(link) THEN <<entry>> \o frontier ELSE Append(frontier, entry)

\* The link loop without the test of the network location.
RECURSIVE Expand_AnyNetloc(_, _, _, _, _)
Expand_AnyNetloc(frontier, links, k, src, depth) ==
    IF k > Len(links) THEN frontier
    ELSE LET link == links[k]
         IN  IF link.skip
             THEN Expand_AnyNetloc(frontier, links, k + 1, src, depth)
             ELSE Expand_AnyNetloc(Enqueue(frontier, link,
                                           Entry(link.url, depth, KeywordHref(link), src, k)),
                                   links, k + 1, src, depth)

\* for link in links: ... from the k-th link on, on the page src at depth - 1.
RECURSIVE Expand(_, _, _, _, _)
Expand(frontier, links, k, src, depth) ==
    IF k > Len(links) THEN frontier
    ELSE LET link == links[k]
         IN  IF link.skip \/ link.url.netloc # base_url.netloc
             THEN Expand(frontier, links, k + 1, src, depth)
             ELSE Expand(Enqueue(frontier, link,
                                 Entry(link.url, depth, KeywordHref(link), src, k)),
                         links, k + 1, src, depth)

\* The links of a page that stop at the test of l.488-489.
Dropped(links) ==
    {links[k].url : k \in {i \in 1..Len(links) :
                              ~links[i].skip /\ links[i].url.netloc # base_url.netloc}}

LoopRuns_NoBudget ==
    /\ pc = "crawl_loop"
    /\ to_visit # <<>>

\* while to_visit and len(discovered_pages) < self.max_pages:
LoopRuns ==
    /\ pc = "crawl_loop"
    /\ to_visit # <<>>
    /\ Len(discovered_pages) < max_pages

\* if url in visited or depth > max_depth: continue
CrawlSkip ==
    /\ LoopRuns
    /\ Head(to_visit).url \in visited \/ Head(to_visit).depth > max_depth
    /\ to_visit' = Tail(to_visit)
    /\ UNCHANGED <<visited, discovered_pages, offsite_links, pvars, rvars, mvars, xvars, evars>>

\* The node is taken without being added to visited.
Fresh_NotMarked ==
    /\ LoopRuns
    /\ Head(to_visit).url \notin visited
    /\ Head(to_visit).depth <= max_depth
    /\ visited' = visited

Fresh ==
    /\ LoopRuns
    /\ Head(to_visit).url \notin visited
    /\ Head(to_visit).depth <= max_depth
    /\ visited' = visited \cup {Head(to_visit).url}

\* if robots_parser and not self._is_allowed(url, robots_parser): continue
CrawlDenied ==
    /\ Fresh
    /\ ~is_allowed(Head(to_visit).url)
    /\ to_visit' = Tail(to_visit)
    /\ UNCHANGED <<discovered_pages, offsite_links, pvars, rvars, mvars, xvars, evars>>

\* content, _ = self._fetch_url(url); if not content: continue
CrawlFetchFails ==
    /\ Fresh
    /\ is_allowed(Head(to_visit).url)
    /\ to_visit' = Tail(to_visit)
    /\ UNCHANGED <<discovered_pages, offsite_links, pvars, rvars, mvars, xvars, evars>>

\* The page is recorded and its links are put on the frontier at any depth.
CrawlRecord_ExpandsAlways ==
    /\ Fresh
    /\ is_allowed(Head(to_visit).url)
    /\ LET url == Head(to_visit).url
           depth == Head(to_visit).depth
       IN  /\ discovered_pages' = Append(discovered_pages, CrawledPage(url, depth))
           /\ \E links \in SeqsUpTo(SiteLinks, MaxLinks) :
                 /\ to_visit' = Expand(Tail(to_visit), links, 1, url, depth + 1)
                 /\ offsite_links' = offsite_links \cup Dropped(links)
    /\ UNCHANGED <<pvars, rvars, mvars, xvars, evars>>

\* The page is fetched and recorded; below max_depth its links are put on
\* the frontier.  (When the link extraction raises, the links handled before
\* stay on the frontier: the same as a page that holds only those.)
CrawlRecord ==
    /\ Fresh
    /\ is_allowed(Head(to_visit).url)
    /\ LET url == Head(to_visit).url
           depth == Head(to_visit).depth
       IN  /\ discovered_pages' = Append(discovered_pages, CrawledPage(url, depth))
           /\ IF depth >= max_depth
              THEN to_visit' = Tail(to_visit) /\ offsite_links' = offsite_links
              ELSE \E links \in SeqsUpTo(SiteLinks, MaxLinks) :
                      /\ to_visit' = Expand(Tail(to_visit), links, 1, url, depth + 1)
                      /\ offsite_links' = offsite_links \cup Dropped(links)
    /\ UNCHANGED <<pvars, rvars, mvars, xvars, evars>>

\* The while condition is false: the discovered pages go to the pool.
CrawlLoopExit ==
    /\ pc = "crawl_loop"
    /\ to_visit = <<>> \/ Len(discovered_pages) >= max_pages
    /\ Submit("crawl", discovered_pages, <<>>)
    /\ pc' = "crawl_pool"
    /\ UNCHANGED <<robots_denied, fc_args, company_name, result, cvars, rvars, mvars, xvars, evars>>

\* The pool is over: the record without cluster_themes.
CrawlReturn ==
    /\ pc = "crawl_pool" /\ AllCollected
    /\ result' = [contact_pages |-> SelectSeq(collected, LAMBDA p : p.content_type = "contact"),
                  about_pages |-> SelectSeq(collected, LAMBDA p : p.content_type = "about"),
                  all_analyzed |-> collected,
                  cluster_themes |-> <<>>, has_themes |-> FALSE]
    /\ pc' = "returned"
    /\ UNCHANGED <<robots_denied, fc_args, company_name, pool_owner, tasks, futures, collected,
                   pool_base, cvars, rvars, mvars, xvars, evars>>

\* _discover_pages_by_crawling is entered (the resolver found nothing).
InitCrawl ==
    /\ pc = "crawl_loop"
    /\ robots_denied \in RobotsRules
    /\ IdlePool
    /\ to_visit = <<Entry(base_url, 0, FALSE, base_url, 0)>>
    /\ visited = {}
    /\ discovered_pages = <<>>
    /\ offsite_links = {}
    /\ Resolved(<<>>)

----------------------------------------------------------------------------
(* scrapandwrap.py: Contact and ContactFinderPro._merge_contacts *)

Fields == {"email", "phone", "address", "website", "form_url"}
Platforms == {"linkedin", "facebook"}

\* Contact(...) with the dataclass defaults.
DefaultContact ==
    [siret |-> None, company_name |-> None, email |-> None, phone |-> None,
     fax |-> None, social_media |-> <<>>, address |-> None, website |-> None,
     form_url |-> None, source |-> "website", confidence |-> 0]

\* The Contacts of the model.  A shape says which fields are set
\* (1: a value, 0: None, -1: ""); every value a Contact holds is the tag
\* 1000 * shape + confidence, so that it names the Contact it comes from.
Confidences == {60, 80, 90}
Shapes5 ==
    << [email |->  1, phone |->  0, address |->  0, website |->  0, form_url |->  0, social |-> {}, official |-> FALSE],
       [email |->  1, phone |->  1, address |->  0, website |->  1, form_url |->  0, social |-> {"linkedin"}, official |-> FALSE],
       [email |->  0, phone |->  1, address |->  1, website |->  0, form_url |->  1, social |-> {"linkedin", "facebook"}, official |-> FALSE],
       [email |-> -1, phone |->  0, address |->  1, website |->  1, form_url |->  1, social |-> {"facebook"}, official |-> TRUE],
       [email |->  0, phone |->  0, address |->  0, website |->  0, form_url |->  0, social |-> {}, official |-> TRUE],
       [email |->  1, phone |->  1, address |->  1, website |->  1, form_url |->  1, social |-> {}, official |-> FALSE] >>

FieldValue(flag, tag) == IF flag = 1 THEN tag ELSE flag

MkContact(k, c) ==
    LET sh == Shapes5[k]
        tag == 1000 * k + c
    IN  [siret |-> IF sh.official THEN tag ELSE None,
         company_name |-> IF sh.official THEN tag ELSE None,
         email |-> FieldValue(sh.email, tag),
         phone |-> FieldValue(sh.phone, tag),
         fax |-> IF sh.official THEN tag ELSE None,
         social_media |-> [p \in sh.social |-> tag],
         address |-> FieldValue(sh.address, tag),
         website |-> FieldValue(sh.website, tag),
         form_url |-> FieldValue(sh.form_url, tag),
         source |-> IF sh.official THEN "api_entreprise" ELSE "website",
         confidence |-> c]

ContactPool == {MkContact(k, c) : k \in 1..Len(Shapes5), c \in Confidences}

\* sorted(contacts, key=lambda c: c.confidence, reverse=True): a stable sort,
\* equal confidences keep their input order.
RECURSIVE InsertByConfidence(_, _)
InsertByConfidence(sorted, c) ==
    IF sorted = <<>> THEN <<c>>
    ELSE IF Head(sorted).confidence >= c.confidence
         THEN <<Head(sorted)>> \o InsertByConfidence(Tail(sorted), c)
         ELSE <<c>> \o sorted

RECURSIVE SortAscending(_)
SortAscending(cs) ==
    IF cs = <<>> THEN <<>>
    ELSE LET rest == SortAscending(SubSeq(cs, 1, Len(cs) - 1))
             c == cs[Len(cs)]
             before == SelectSeq(rest, LAMBDA x : x.confidence <= c.confidence)
             after == SelectSeq(rest, LAMBDA x : x.confidence > c.confidence)
         IN  before \o <<c>> \o after

\* The sort left out: the Contacts stay in input order.
SortByConfidence_InputOrder(cs) == cs

RECURSIVE SortByConfidence(_)
SortByConfidence(cs) ==
    IF cs = <<>> THEN <<>>
    ELSE InsertByConfidence(SortByConfidence(SubSeq(cs, 1, Len(cs) - 1)), cs[Len(cs)])

\* The iteration with "final_contact.social_media[platform] = url" written
\* without the "platform not in" test.
MergeOne_LastSocialWins(final, contact) ==
    LET take(f) == IF Truthy(contact[f]) /\ ~Truthy(final[f]) THEN contact[f] ELSE final[f]
        social == [p \in DOMAIN final.social_media \cup DOMAIN contact.social_media |->
                      IF p \in DOMAIN contact.social_media
                      THEN contact.social_media[p] ELSE final.social_media[p]]
    IN  [final EXCEPT !.email = take("email"), !.phone = take("phone"),
                      !.address = take("address"), !.website = take("website"),
                      !.form_url = take("form_url"), !.social_media = social]

\* One iteration of "for contact in sorted_contacts".  found_email ... are
\* set exactly when the field of final_contact was written, and a written
\* field is never None or "": the flags are read off final_contact.
MergeOne(final, contact) ==
    LET take(f) == IF Truthy(contact[f]) /\ ~Truthy(final[f]) THEN contact[f] ELSE final[f]
        social == [p \in DOMAIN final.social_media \cup DOMAIN contact.social_media |->
                      IF p \in DOMAIN final.social_media
                      THEN final.social_media[p] ELSE contact.social_media[p]]
    IN  [final EXCEPT !.email = take("email"), !.phone = take("phone"),
                      !.address = take("address"), !.website = take("website"),
                      !.form_url = take("form_url"), !.social_media = social]

RECURSIVE MergeLoop(_, _)
MergeLoop(final, sorted_contacts) ==
    IF sorted_contacts = <<>> THEN final
    ELSE MergeLoop(MergeOne(final, Head(sorted_contacts)), Tail(sorted_contacts))

\* _merge_contacts with siret and company_name taken, like the other fields,
\* from the first sorted Contact that has one.
merge_contacts_OfficialFromAny(cs) ==
    IF cs = <<>> THEN NoContact
    ELSE IF Len(cs) = 1 THEN cs[1]
    ELSE LET sorted_contacts == SortByConfidence(cs)
             with_siret == SelectSeq(sorted_contacts, LAMBDA c : Truthy(c.siret))
             with_name == SelectSeq(sorted_contacts, LAMBDA c : Truthy(c.company_name))
             base == [DefaultContact EXCEPT
                         !.siret = IF with_siret = <<>> THEN sorted_contacts[1].siret
                                   ELSE with_siret[1].siret,
                         !.company_name = IF with_name = <<>>
                                          THEN sorted_contacts[1].company_name
                                          ELSE with_name[1].company_name,
                         !.confidence = sorted_contacts[1].confidence]
         IN  MergeLoop(base, sorted_contacts)

\* _merge_contacts without "if len(contacts) == 1: return contacts[0]".
merge_contacts_NoShortcut(cs) ==
    IF cs = <<>> THEN NoContact
    ELSE LET sorted_contacts == SortByConfidence(cs)
             base == [DefaultContact EXCEPT
                         !.siret = sorted_contacts[1].siret,
                         !.company_name = sorted_contacts[1].company_name,
                         !.confidence = sorted_contacts[1].confidence]
         IN  MergeLoop(base, sorted_contacts)

merge_contacts(cs) ==
    IF cs = <<>> THEN NoContact
    ELSE IF Len(cs) = 1 THEN cs[1]
    ELSE LET sorted_contacts == SortByConfidence(cs)
             base == [DefaultContact EXCEPT
                         !.siret = sorted_contacts[1].siret,
                         !.company_name = sorted_contacts[1].company_name,
                         !.confidence = sorted_contacts[1].confidence]
         IN  MergeLoop(base, sorted_contacts)

\* A call of _merge_contacts on a list of Contacts.
InitMerge ==
    /\ mpc = "call"
    /\ contacts \in SeqsUpTo(ContactPool, MaxContacts)
    /\ final_contact = NoContact

IdleMerge ==
    /\ mpc = "idle"
    /\ contacts = <<>>
    /\ final_contact = NoContact

MergeContacts ==
    /\ mpc = "call"
    /\ final_contact' = merge_contacts(contacts)
    /\ mpc' = "returned"
    /\ UNCHANGED <<contacts, rvars, pvars, cvars, xvars, evars>>

----------------------------------------------------------------------------
(* ContactFinderPro.find_contacts, up to the merge *)

\* What the parsers of extract_contacts_from_page find on a page.
Extraction(email, phone, form, name, social, address) ==
    [email |-> email, phone |-> phone, form |-> form, name |-> name,
     social |-> social, address |-> address]
Extractions ==
    {Extraction(FALSE, FALSE, FALSE, FALSE, FALSE, FALSE),
     Extraction(TRUE, FALSE, FALSE, FALSE, FALSE, TRUE),
     Extraction(FALSE, TRUE, TRUE, FALSE, TRUE, FALSE),
     Extraction(TRUE, TRUE, FALSE, TRUE, TRUE, TRUE)}

\* The values of the Contact of task i: 1000 * i + the number of the field
\* (the page URL for website and form_url).
Value(i, n) == 1000 * i + n

\* extract_contacts_from_page(url, priority), l.139-185, for the pools: the
\* fields are tags, and the confidence is in hundredths (ContactOf below has
\* the strings and the float sum).
ExtractedContact(i, priority, ex) ==
    [DefaultContact EXCEPT
        !.website = Value(i, 3),
        !.source = "website",
        !.company_name = IF ex.name THEN Value(i, 4) ELSE None,
        !.email = IF ex.email THEN Value(i, 1) ELSE None,
        !.phone = IF ex.phone THEN Value(i, 2) ELSE None,
        !.social_media = IF ex.social THEN [p \in {"linkedin"} |-> Value(i, 6)] ELSE <<>>,
        !.form_url = IF ex.form THEN Value(i, 3) ELSE None,
        !.address = IF ex.address THEN Value(i, 5) ELSE None,
        !.confidence = Max(30, Min(90, priority))
                          + (IF ex.email THEN 20 ELSE 0)
                          + (IF ex.phone THEN 10 ELSE 0)
                          + (IF ex.social THEN 10 ELSE 0)
                          + (IF ex.form THEN 5 ELSE 0)
                          + (IF ex.address THEN 10 ELSE 0)]

\* _find_company_info_from_siret: the api_entreprise answer.
OfficialContact ==
    [DefaultContact EXCEPT !.siret = 9001, !.company_name = 9004, !.address = 9005,
                           !.source = "api_entreprise", !.confidence = 90]

\* _find_contact_info_from_gmaps: the answer when an API key is configured.
GmapsContact ==
    [DefaultContact EXCEPT !.company_name = 8004, !.phone = 8002, !.address = 8005,
                           !.website = 8003, !.source = "gmaps", !.confidence = 80]

\* The pages find_contacts can be handed.
ContactPageCatalog ==
    {PageInfo(ContactUs, 50, 50), PageInfo(BlogPost, 90, 90), PageInfo(Support, 20, 20)}

InitContacts ==
    /\ pc = "fc_start"
    /\ robots_denied = {}
    /\ \E pages \in SeqsUpTo(ContactPageCatalog, MaxContactPages), url \in {None, 7003} :
          fc_args = [url |-> url, contact_pages |-> pages]
    /\ company_name \in {None, 7004}
    /\ pool_owner = "none"
    /\ tasks = <<>>
    /\ futures = <<>>
    /\ collected = <<>>
    /\ pool_base = 0
    /\ result = NoResult

\* Step 1 (the SIRET lookup) and step 2 up to the submission of the pages,
\* or the branch to step 3, or neither.
FcStart ==
    /\ pc = "fc_start"
    /\ \E official_info \in {NoContact, OfficialContact} :
          LET found == official_info # NoContact
              contacts0 == IF found THEN <<official_info>> ELSE <<>>
              sorted_pages == SortByPriority(fc_args.contact_pages)
              pages_to_analyze == SubSeq(sorted_pages, 1, Min(TopPages, Len(sorted_pages)))
          IN  /\ company_name' = IF found /\ Truthy(official_info.company_name)
                                 THEN official_info.company_name ELSE company_name
              /\ IF fc_args.contact_pages # <<>>
                 THEN /\ Submit("contacts", pages_to_analyze, contacts0)
                      /\ pc' = "fc_pool"
                 ELSE /\ Submit("none", <<>>, contacts0)
                      /\ pc' = IF Truthy(fc_args.url) THEN "fc_single" ELSE "fc_collected"
    /\ UNCHANGED <<robots_denied, fc_args, result, rvars, cvars, mvars, xvars, evars>>

\* extract_contacts_from_page returns None: the fetch gave nothing
\* (l.135-137), or the extraction raised and the error was logged (l.186-188).
ExtractReturnsNone ==
    /\ pc = "fc_pool"
    /\ \E i \in Running : futures' = [futures EXCEPT ![i] = Done("none", NoContact)]
    /\ UNCHANGED <<pc, robots_denied, fc_args, company_name, pool_owner, tasks, collected,
                   pool_base, result, rvars, cvars, mvars, xvars, evars>>

\* extract_contacts_from_page returns a Contact.
Extracts ==
    /\ pc = "fc_pool"
    /\ \E i \in Running, ex \in Extractions :
          futures' = [futures EXCEPT
                         ![i] = Done("ok", ExtractedContact(i, tasks[i].priority, ex))]
    /\ UNCHANGED <<pc, robots_denied, fc_args, company_name, pool_owner, tasks, collected,
                   pool_base, result, rvars, cvars, mvars, xvars, evars>>

\* Step 3: contact = self.extract_contacts_from_page(url), priority 0.0.
ExtractSingle ==
    /\ pc = "fc_single"
    /\ \/ UNCHANGED collected
       \/ \E ex \in Extractions :
             LET contact == ExtractedContact(0, 0, ex)
             IN  collected' = Append(collected,
                     IF Truthy(company_name) /\ ~Truthy(contact.company_name)
                     THEN [contact EXCEPT !.company_name = company_name] ELSE contact)
    /\ pc' = "fc_collected"
    /\ UNCHANGED <<robots_denied, fc_args, company_name, pool_owner, tasks, futures,
                   pool_base, result, rvars, cvars, mvars, xvars, evars>>

\* Step 4 (Google Maps when no contact has an email) and step 5 (the merge).
FcMerge ==
    /\ \/ pc = "fc_pool" /\ AllCollected
       \/ pc = "fc_collected"
    /\ \E gmaps_contact \in {NoContact, GmapsContact} :
          LET asked == /\ Truthy(company_name)
                       /\ \A i \in 1..Len(collected) : ~Truthy(collected[i].email)
              all == IF asked /\ gmaps_contact # NoContact
                     THEN Append(collected, gmaps_contact) ELSE collected
          IN  /\ ~asked => gmaps_contact = NoContact
              /\ contacts' = all
              /\ final_contact' = merge_contacts(all)
    /\ mpc' = "returned"
    /\ pc' = "fc_merged"
    /\ UNCHANGED <<robots_denied, fc_args, company_name, pool_owner, tasks, futures,
                   collected, pool_base, result, rvars, cvars, xvars, evars>>

----------------------------------------------------------------------------
(* scrapandwrap.py: _enrich_contact_from_alternative_sources *)

\* directories[:2], l.796
ProbedDirectories == 2

\* What a company page of a directory gives.
DirectoryEmail == 6001
DirectoryPhone == 6002

\* common_emails, l.855-861: the five local parts, each with the domain of
\* contact.website.
common_emails(website) ==
    [i \in 1..5 |-> [local |-> <<"contact", "info", "hello", "bonjour", "support">>[i],
                     domain_of |-> website]]

\* The Contacts _enrich_contact_from_alternative_sources is called with.
EnrichContacts ==
    {[DefaultContact EXCEPT !.company_name = name, !.email = email, !.phone = phone,
                            !.website = website, !.confidence = confidence] :
        name \in {None, 7004}, email \in {None, EmptyStr, 7001}, phone \in {None, 7002},
        website \in {None, 7003}, confidence \in {30, 80}}

InitEnrich ==
    /\ npc = "call"
    /\ directory = 0
    /\ fetched = 0
    /\ potential_emails = <<>>
    /\ contact_at_call = NoContact
    /\ mpc = "idle"
    /\ contacts = <<>>
    /\ final_contact \in EnrichContacts \cup {NoContact}

\* The entry of the function without the test for a Contact that has both
\* an email and a phone.
EnrichCall_AlwaysProbes ==
    /\ npc = "call"
    /\ IF final_contact = NoContact
       THEN npc' = "returned" /\ directory' = 0
       ELSE IF ~Truthy(final_contact.company_name)
       THEN npc' = "returned" /\ directory' = 0
       ELSE npc' = "probe" /\ directory' = 1
    /\ contact_at_call' = final_contact
    /\ UNCHANGED <<fetched, potential_emails, rvars, pvars, cvars, mvars, xvars>>

\* l.781-786: the two early returns.
EnrichCall ==
    /\ npc = "call"
    /\ IF final_contact = NoContact
       THEN npc' = "returned" /\ directory' = 0
       ELSE IF (Truthy(final_contact.email) /\ Truthy(final_contact.phone))
                \/ ~Truthy(final_contact.company_name)
       THEN npc' = "returned" /\ directory' = 0
       ELSE npc' = "probe" /\ directory' = 1
    /\ contact_at_call' = final_contact
    /\ UNCHANGED <<fetched, potential_emails, rvars, pvars, cvars, mvars, xvars>>

\* The end of one iteration of "for directory_url in directories[:2]".
NextDirectory ==
    IF directory < ProbedDirectories
    THEN npc' = "probe" /\ directory' = directory + 1
    ELSE npc' = "guess" /\ directory' = 0

\* One iteration that changes nothing: the directory is not fetched or lists
\* no link to the company (one fetch), or the company page is not fetched,
\* gives nothing new, or its parsing raises (two fetches), l.796-846.
ProbeFindsNothing ==
    /\ npc = "probe"
    /\ \E n \in {1, 2} : fetched' = fetched + n
    /\ NextDirectory
    /\ UNCHANGED <<potential_emails, contact_at_call, rvars, pvars, cvars, mvars, xvars>>

\* One iteration that reads the company page, l.821-843: the email and the
\* phone are taken when the Contact has none and the page gives one, with
\* 0.1 of confidence each; the function returns once the Contact has both.
ProbeReadsPage ==
    /\ npc = "probe"
    /\ fetched' = fetched + 2
    /\ \E email_found, phone_found \in BOOLEAN :
          LET takes_email == ~Truthy(final_contact.email) /\ email_found
              takes_phone == ~Truthy(final_contact.phone) /\ phone_found
              c1 == IF takes_email
                    THEN [final_contact EXCEPT !.email = DirectoryEmail,
                                               !.confidence = @ + 10]
                    ELSE final_contact
              c2 == IF takes_phone
                    THEN [c1 EXCEPT !.phone = DirectoryPhone, !.confidence = @ + 10]
                    ELSE c1
          IN  /\ takes_email \/ takes_phone
              /\ final_contact' = c2
              /\ IF Truthy(c2.email) /\ Truthy(c2.phone)
                 THEN npc' = "returned" /\ directory' = 0
                 ELSE NextDirectory
    /\ UNCHANGED <<mpc, contacts, potential_emails, contact_at_call, rvars, pvars, cvars, xvars>>

\* The guessing step with the first guess written into contact.email.
EnrichGuess_FillsEmail ==
    /\ npc = "guess"
    /\ IF ~Truthy(final_contact.email) /\ Truthy(final_contact.website)
       THEN /\ potential_emails' = common_emails(final_contact.website)
            /\ final_contact' = [final_contact EXCEPT !.email = 6003, !.confidence = @ - 10]
       ELSE UNCHANGED <<potential_emails, final_contact>>
    /\ npc' = "returned"
    /\ UNCHANGED <<mpc, contacts, directory, fetched, contact_at_call, rvars, pvars, cvars,
                   xvars>>

\* l.849-865: the guesses and the penalty.
EnrichGuess ==
    /\ npc = "guess"
    /\ IF ~Truthy(final_contact.email) /\ Truthy(final_contact.website)
       THEN /\ potential_emails' = common_emails(final_contact.website)
            /\ final_contact' = [final_contact EXCEPT !.confidence = @ - 10]
       ELSE UNCHANGED <<potential_emails, final_contact>>
    /\ npc' = "returned"
    /\ UNCHANGED <<mpc, contacts, directory, fetched, contact_at_call, rvars, pvars, cvars,
                   xvars>>

\* find_contacts, step 6 (l.716-718): the enrichment is called when there is
\* a final Contact without email; otherwise find_contacts returns.
FcStep6 ==
    /\ pc = "fc_merged"
    /\ IF final_contact = NoContact THEN pc' = "fc_returned" /\ npc' = npc
       ELSE IF ~Truthy(final_contact.email) THEN pc' = "fc_enrich" /\ npc' = "call"
       ELSE pc' = "fc_returned" /\ npc' = npc
    /\ UNCHANGED <<robots_denied, fc_args, company_name, pool_owner, tasks, futures,
                   collected, pool_base, result, directory, fetched, potential_emails, contact_at_call,
                   rvars, cvars, mvars, xvars>>

\* l.720: return final_contact, after the enrichment.
FcReturn ==
    /\ pc = "fc_enrich" /\ npc = "returned"
    /\ pc' = "fc_returned"
    /\ UNCHANGED <<robots_denied, fc_args, company_name, pool_owner, tasks, futures,
                   collected, pool_base, result, rvars, cvars, mvars, xvars, evars>>

IdleEnrich ==
    /\ npc = "idle"
    /\ directory = 0
    /\ fetched = 0
    /\ potential_emails = <<>>
    /\ contact_at_call = NoContact

----------------------------------------------------------------------------
(* scrapandwrap.py: the parsers of extract_contacts_from_page *)

NoSoup == [absent |-> TRUE]

\* The page of a call: its <a href> elements in document order, what the
\* e-mail and phone parsers can find in it (see below), whether it has a
\* contact form, and the postal address and the company name the page
\* gives (None if it gives none).
Soup(a, emails, phones, form, address, name) ==
    [a |-> a, emails |-> emails, phones |-> phones, form |-> form,
     address |-> address, name |-> name]

\* self.social_media_patterns, in the order of the dict.
social_media_patterns == <<"linkedin", "facebook", "twitter", "instagram">>

\* An <a href>: the stripped href (a number stands for the string), whether
\* it is '', '#' or 'javascript:...', and the patterns re.search finds in it.
Href(href, skipped, matches) == [href |-> href, skipped |-> skipped, matches |-> matches]
Hrefs ==
    {Href(101, FALSE, {"linkedin"}), Href(102, FALSE, {"linkedin"}),
     Href(103, FALSE, {"facebook"}), Href(104, FALSE, {"linkedin", "facebook"}),
     Href(105, TRUE, {"linkedin"}), Href(106, FALSE, {}), Href(107, FALSE, {"twitter"})}

\* "for platform, pattern in ...items(): if re.search(...): ...; break":
\* the first platform of the dict whose pattern matches, "" if none does.
PlatformOf(link) ==
    LET hits == {i \in 1..Len(social_media_patterns) :
                    social_media_patterns[i] \in link.matches}
    IN  IF hits = {} THEN ""
        ELSE social_media_patterns[CHOOSE i \in hits : \A j \in hits : i <= j]

\* The loop of _extract_social_media over the links, l.401-412.
RECURSIVE SocialLoop(_, _)
SocialLoop(links, social_links) ==
    IF links = <<>> THEN social_links
    ELSE LET link == Head(links)
             platform == PlatformOf(link)
         IN  IF link.skipped \/ platform = ""
             THEN SocialLoop(Tail(links), social_links)
             ELSE SocialLoop(Tail(links),
                      [p \in DOMAIN social_links \cup {platform} |->
                          IF p = platform THEN link.href ELSE social_links[p]])

extract_social_media(page) == SocialLoop(page.a, <<>>)

\* --- phones: _clean_phone, _is_valid_phone, _extract_phones ---

\* A string is the sequence of its characters; NoString stands for None
\* where a string can stand.
NoString == <<"None">>
Digits == {"0", "1", "2", "3", "4", "5", "6", "7", "8", "9"}
StartsWith(s, prefix) == Len(s) >= Len(prefix) /\ SubSeq(s, 1, Len(prefix)) = prefix
Drop(s, n) == SubSeq(s, n + 1, Len(s))

\* _clean_phone without the rewriting of the French prefixes.
clean_phone_NoRewrite(phone) ==
    SelectSeq(phone, LAMBDA ch : ch \in Digits \cup {"+", "(", ")"})

\* _clean_phone, l.371-382: re.sub(r'[^\d+()]', '', phone), then the French
\* prefixes 0033 and 33 become +33.
clean_phone(phone) ==
    LET cleaned == SelectSeq(phone, LAMBDA ch : ch \in Digits \cup {"+", "(", ")"})
    IN  IF StartsWith(cleaned, <<"0", "0", "3", "3">>)
        THEN <<"+", "3", "3">> \o Drop(cleaned, 4)
        ELSE IF StartsWith(cleaned, <<"3", "3">>) /\ ~StartsWith(cleaned, <<"+", "3", "3">>)
        THEN <<"+", "3", "3">> \o Drop(cleaned, 2)
        ELSE cleaned

\* _is_valid_phone, l.384-394: not empty and at least 8 digits.
MinDigits == 8
is_valid_phone(phone) ==
    /\ phone # <<>>
    /\ Len(SelectSeq(phone, LAMBDA ch : ch \in Digits)) >= MinDigits

\* The raw phone strings of the model pages.
Phone0123 == <<"0", "1", " ", "2", "3", " ", "4", "5", " ", "6", "7", " ", "8", "9">>
Phone0033 == <<"0", "0", "3", "3", " ", "1", " ", "2", "3", " ", "4", "5", " ", "6", "7", " ", "8", "9">>
PhonePlus33 == <<"+", "3", "3", "1", "2", "3", "4", "5", "6", "7", "8", "9">>
PhoneShort == <<"(", "3", "3", ")", " ", "1", "2", " ", "3", "4">>
RawPhones == {Phone0123, Phone0033, PhonePlus33, PhoneShort}

\* What _extract_phones meets on a page: the numbers of the tel: links, the
\* matches of the phone patterns in the text, the data-phone attributes.
PhoneSources(tel, text, data) == [tel |-> tel, text |-> text, data |-> data]
Discovered(sources) == sources.tel \o sources.text \o sources.data

\* _extract_phones, l.344-369: every number found is cleaned and added to a
\* set; the list returned is built by iterating over that set, whose order
\* Python does not define (string hashes are salted per process).  The
\* operator gives every list the call can return.
extract_phones(page) ==
    LET found == Discovered(page.phones)
        phones == {clean_phone(found[i]) : i \in 1..Len(found)}
        valid_phones == {p \in phones : is_valid_phone(p)}
    IN  {s \in NoDupSeqs(valid_phones) : Len(s) = Cardinality(valid_phones)}

\* --- e-mails: _is_valid_email, _select_best_email, _extract_emails ---

LowerLetters ==
    {"a", "b", "c", "d", "e", "f", "g", "h", "i", "j", "k", "l", "m",
     "n", "o", "p", "q", "r", "s", "t", "u", "v", "w", "x", "y", "z"}
UpperLetters == {"S", "U"}
\* the class \w of the patterns
WordChars == LowerLetters \cup UpperLetters \cup Digits \cup {"_"}

\* str.lower()
LowerChar(c) == IF c = "S" THEN "s" ELSE IF c = "U" THEN "u" ELSE c
Lower(s) == [i \in 1..Len(s) |-> LowerChar(s[i])]

\* "t in s" for strings
Contains(s, t) ==
    \E i \in 1..(Len(s) - Len(t) + 1) : SubSeq(s, i, i + Len(t) - 1) = t

\* s.split(sep)[0]: what stands before the first sep (all of s if none)
BeforeFirst(s, sep) ==
    LET at == {i \in 1..Len(s) : s[i] = sep}
    IN  IF at = {} THEN s
        ELSE SubSeq(s, 1, (CHOOSE i \in at : \A j \in at : i <= j) - 1)

\* str.strip() and str.replace(' ', '')
RECURSIVE Strip(_)
Strip(s) ==
    IF s = <<>> THEN s
    ELSE IF Head(s) = " " THEN Strip(Tail(s))
    ELSE IF s[Len(s)] = " " THEN Strip(SubSeq(s, 1, Len(s) - 1))
    ELSE s
NoSpaces(s) == SelectSeq(s, LAMBDA c : c # " ")

\* str.replace(old, new) / re.sub of a literal: every occurrence, left to right
RECURSIVE Replace(_, _, _)
Replace(s, old, new) ==
    IF Len(s) < Len(old) THEN s
    ELSE IF SubSeq(s, 1, Len(old)) = old
         THEN new \o Replace(SubSeq(s, Len(old) + 1, Len(s)), old, new)
         ELSE <<Head(s)>> \o Replace(Tail(s), old, new)

\* re.match(r'^[\w.+-]+@[\w-]+\.[\w.-]+$', email)
MatchesEmailPattern(s) ==
    \E i \in 2..Len(s) : \E j \in (i + 2)..(Len(s) - 1) :
        /\ s[i] = "@" /\ s[j] = "."
        /\ \A k \in 1..(i - 1) : s[k] \in WordChars \cup {".", "+", "-"}
        /\ \A k \in (i + 1)..(j - 1) : s[k] \in WordChars \cup {"-"}
        /\ \A k \in (j + 1)..Len(s) : s[k] \in WordChars \cup {".", "-"}

\* generic_emails, l.295
generic_emails ==
    {<<"e", "x", "a", "m", "p", "l", "e">>,
     <<"t", "e", "s", "t">>,
     <<"u", "s", "e", "r">>,
     <<"i", "n", "f", "o", "@", "e", "x", "a", "m", "p", "l", "e">>,
     <<"w", "e", "b", "m", "a", "s", "t", "e", "r", "@", "e", "x", "a", "m", "p", "l", "e">>}

\* l.291: if len(email) > 50
MaxEmailLength == 50

\* _is_valid_email without the length test
is_valid_email_AnyLength(email) ==
    /\ email # <<>> /\ Contains(email, <<"@">>)
    /\ MatchesEmailPattern(email)
    /\ \A generic \in generic_emails : ~Contains(Lower(email), generic)

\* _is_valid_email, l.281-299
is_valid_email(email) ==
    /\ email # <<>> /\ Contains(email, <<"@">>)
    /\ MatchesEmailPattern(email)
    /\ Len(email) <= MaxEmailLength
    /\ \A generic \in generic_emails : ~Contains(Lower(email), generic)

\* email_priority, l.310-324, in the order of the dict
email_priority ==
    <<[key |-> <<"c", "o", "n", "t", "a", "c", "t">>, value |-> 10],
      [key |-> <<"i", "n", "f", "o">>, value |-> 9],
      [key |-> <<"h", "e", "l", "l", "o">>, value |-> 8],
      [key |-> <<"b", "o", "n", "j", "o", "u", "r">>, value |-> 8],
      [key |-> <<"c", "o", "m", "m", "e", "r", "c", "i", "a", "l">>, value |-> 7],
      [key |-> <<"s", "a", "l", "e", "s">>, value |-> 7],
      [key |-> <<"s", "u", "p", "p", "o", "r", "t">>, value |-> 6],
      [key |-> <<"s", "e", "r", "v", "i", "c", "e">>, value |-> 6],
      [key |-> <<"d", "i", "r", "e", "c", "t", "i", "o", "n">>, value |-> 5],
      [key |-> <<"a", "d", "m", "i", "n">>, value |-> 4],
      [key |-> <<"w", "e", "b", "m", "a", "s", "t", "e", "r">>, value |-> 3],
      [key |-> <<"n", "o", "r", "e", "p", "l", "y">>, value |-> 1],
      [key |-> <<"n", "o", "-", "r", "e", "p", "l", "y">>, value |-> 1]>>
DefaultScore == 5

\* The scoring loop of _select_best_email, l.327-337: the first key of the
\* dict found in the lower-cased local part gives the score.
Score(email) ==
    LET prefix == Lower(BeforeFirst(email, "@"))
        hits == {i \in 1..Len(email_priority) : Contains(prefix, email_priority[i].key)}
    IN  IF hits = {} THEN DefaultScore
        ELSE email_priority[CHOOSE i \in hits : \A j \in hits : i <= j].value

\* scored_emails.sort(key=lambda x: x[1], reverse=True): a stable sort
RECURSIVE InsertByScore(_, _)
InsertByScore(sorted, e) ==
    IF sorted = <<>> THEN <<e>>
    ELSE IF Score(Head(sorted)) >= Score(e)
         THEN <<Head(sorted)>> \o InsertByScore(Tail(sorted), e)
         ELSE <<e>> \o sorted

RECURSIVE SortByScore(_)
SortByScore(es) ==
    IF es = <<>> THEN <<>>
    ELSE InsertByScore(SortByScore(SubSeq(es, 1, Len(es) - 1)), es[Len(es)])

\* _select_best_email with a sort that puts the later of two equal scores first
select_best_email_LaterTieFirst(emails) ==
    IF emails = <<>> THEN NoString
    ELSE IF Len(emails) = 1 THEN emails[1]
    ELSE LET best == {i \in 1..Len(emails) :
                         \A j \in 1..Len(emails) : Score(emails[i]) >= Score(emails[j])}
         IN  emails[CHOOSE i \in best : \A j \in best : i >= j]

\* _select_best_email, l.301-342
select_best_email(emails) ==
    IF emails = <<>> THEN NoString
    ELSE IF Len(emails) = 1 THEN emails[1]
    ELSE SortByScore(emails)[1]

\* The e-mail strings of the model pages.
EmailContact == <<"c", "o", "n", "t", "a", "c", "t", "@", "a", "c", "m", "e", ".", "f", "r">>
EmailAdmin == <<"a", "d", "m", "i", "n", "@", "a", "c", "m", "e", ".", "f", "r">>
EmailNoreply == <<"n", "o", "r", "e", "p", "l", "y", "@", "a", "c", "m", "e", ".", "f", "r">>
EmailInfo == <<"i", "n", "f", "o", "@", "a", "c", "m", "e", ".", "f", "r">>
EmailJean == <<"j", "e", "a", "n", "@", "a", "c", "m", "e", ".", "f", "r">>
EmailDirection == <<"d", "i", "r", "e", "c", "t", "i", "o", "n", "@", "a", "c", "m", "e", ".", "f", "r">>
EmailSales == <<"S", "a", "l", "e", "s", "@", "a", "c", "m", "e", ".", "f", "r">>
EmailInfoContact == <<"i", "n", "f", "o", ".", "c", "o", "n", "t", "a", "c", "t", "@", "a", "c", "m", "e", ".", "f", "r">>
EmailTest == <<"t", "e", "s", "t", "@", "a", "c", "m", "e", ".", "f", "r">>
EmailUser == <<"U", "s", "e", "r", "@", "a", "c", "m", "e", ".", "f", "r">>
EmailExample == <<"i", "n", "f", "o", "@", "e", "x", "a", "m", "p", "l", "e", ".", "c", "o", "m">>
EmailNoAt == <<"c", "o", "n", "t", "a", "c", "t", "a", "c", "m", "e", ".", "f", "r">>
EmailBadShape == <<"j", "e", "a", "n", "@", "a", "c", "m", "e">>
\* 50 and 51 characters
EmailLong50 == [i \in 1..42 |-> "a"] \o <<"@", "a", "c", "m", "e", ".", "f", "r">>
EmailLong51 == [i \in 1..43 |-> "a"] \o <<"@", "a", "c", "m", "e", ".", "f", "r">>
MailtoContact == <<" ", "c", "o", "n", "t", "a", "c", "t", "@", "a", "c", "m", "e", ".", "f", "r", "?", "s", "u", "b", "j", "e", "c", "t", "=", "h", "e", "l", "l", "o", " ">>
MailtoTest == <<"t", "e", "s", "t", "@", "a", "c", "m", "e", ".", "f", "r", "?", "s", "u", "b", "j", "e", "c", "t", "=", "h", "e", "l", "l", "o">>
TextJeanAt == <<"j", "e", "a", "n", " ", "[", "a", "t", "]", " ", "a", "c", "m", "e", ".", "f", "r">>
TextUserAt == <<"u", "s", "e", "r", "(", "a", "t", ")", "a", "c", "m", "e", ".", "f", "r">>
\* What _extract_emails meets on a page: what follows 'mailto:' in the
\* links, the matches of the e-mail patterns in the text, the data-email
\* attributes, and the (local part, domain) pairs of the script pattern.
EmailSources(mailto, text, data, js) ==
    [mailto |-> mailto, text |-> text, data |-> data, js |-> js]
NoEmails == EmailSources(<<>>, <<>>, <<>>, <<>>)
NoPhones == PhoneSources(<<>>, <<>>, <<>>)

\* l.237-241: href[7:].strip(), cut at the first '?'
CleanMailto(raw) == BeforeFirst(Strip(raw), "?")

\* l.252-255: the obfuscated forms of '@' in a text match
CleanText(email) ==
    LET at == <<"@">>
        s1 == Replace(NoSpaces(email), <<"[", "a", "t", "]">>, at)
        s2 == Replace(s1, <<"[", "@", "]">>, at)
        s3 == Replace(Replace(Replace(Replace(s2, <<"(", "a", "t", ")">>, at),
                  <<"[", "a", "t", "]">>, at), <<"(", "a", "t", "]">>, at), <<"[", "a", "t", ")">>, at)
    IN  Replace(s3, <<"(", "a", "r", "o", "b", "a", "s", "e", ")">>, at)

\* The strings _extract_emails hands to _is_valid_email, source by source.
EmailCandidates(sources) ==
    {CleanMailto(sources.mailto[i]) : i \in 1..Len(sources.mailto)}
        \cup {CleanText(sources.text[i]) : i \in 1..Len(sources.text)}
        \cup Range(sources.data)
        \cup {sources.js[i][1] \o <<"@">> \o sources.js[i][2] : i \in 1..Len(sources.js)}

\* _extract_emails, l.229-279: the valid candidates go into a set, and
\* list(emails) gives them in the order of the set, which Python does not
\* define.  The operator gives every list the call can return.
extract_emails(page) ==
    LET emails == {e \in EmailCandidates(page.emails) : is_valid_email(e)}
    IN  {s \in NoDupSeqs(emails) : Len(s) = Cardinality(emails)}

\* --- the confidence of a page Contact: Python floats ---

\* A float is written as the integer n = hi * 2^29 + lo with 0 <= lo < 2^29
\* that counts units of 2^-57: every double between 0.03125 and 2 is such a
\* number, and hi and lo fit the integers of the checker.
Limb == 2^29
F(hi, lo) == [hi |-> hi, lo |-> lo]

\* The float literal for h hundredths (0.3 is Dbl[30], 0.05 is Dbl[5]): the
\* double nearest to h / 100.
Dbl ==
    0 :> F(0, 0) @@
    5 :> F(13421772, 429496730) @@
    10 :> F(26843545, 322122548) @@
    15 :> F(40265318, 214748364) @@
    20 :> F(53687091, 107374184) @@
    25 :> F(67108864, 0) @@
    30 :> F(80530636, 429496728) @@
    35 :> F(93952409, 322122544) @@
    40 :> F(107374182, 214748368) @@
    45 :> F(120795955, 107374184) @@
    50 :> F(134217728, 0) @@
    55 :> F(147639500, 429496736) @@
    60 :> F(161061273, 322122544) @@
    65 :> F(174483046, 214748368) @@
    70 :> F(187904819, 107374176) @@
    75 :> F(201326592, 0) @@
    80 :> F(214748364, 429496736) @@
    85 :> F(228170137, 322122544) @@
    90 :> F(241591910, 214748368) @@
    95 :> F(255013683, 107374176) @@
    100 :> F(268435456, 0) @@
    105 :> F(281857228, 429496736) @@
    110 :> F(295279001, 322122560) @@
    115 :> F(308700774, 214748352) @@
    120 :> F(322122547, 107374176) @@
    125 :> F(335544320, 0) @@
    130 :> F(348966092, 429496736) @@
    135 :> F(362387865, 322122560) @@
    140 :> F(375809638, 214748352) @@
    145 :> F(389231411, 107374176) @@
    150 :> F(402653184, 0)

FLe(x, y) == x.hi < y.hi \/ (x.hi = y.hi /\ x.lo <= y.lo)
FMax(x, y) == IF FLe(y, x) THEN x ELSE y
FMin(x, y) == IF FLe(x, y) THEN x ELSE y

\* The spacing of the doubles around a sum (in units of 2^-57): 2^-52 from 1
\* up to 2, 2^-53 from 0.5 up to 1, 2^-54 from 0.25 up to 0.5.  No sum of
\* the extractor is below 0.25.
Ulp(s) == IF s.hi >= 2^28 THEN 32 ELSE IF s.hi >= 2^27 THEN 16 ELSE 8

\* x + y on floats: the exact sum, rounded to the nearest double, to the
\* even one of two equally near.
FAdd(x, y) ==
    LET lo == x.lo + y.lo
        s == IF lo >= Limb THEN F(x.hi + y.hi + 1, lo - Limb) ELSE F(x.hi + y.hi, lo)
        q == Ulp(s)
        r == s.lo % q
        down == s.lo - r
        up == IF 2 * r > q \/ (2 * r = q /\ (down \div q) % 2 = 1)
              THEN down + q ELSE down
    IN  IF up >= Limb THEN F(s.hi + 1, up - Limb) ELSE F(s.hi, up)

\* --- extract_contacts_from_page ---

\* The Contact built with a contact-form bonus that does not look at the form.
ContactOf_FormBonusAlways(url, priority, page, emails, phones) ==
    LET social_media == extract_social_media(page)
        c0 == FMax(Dbl[30], FMin(Dbl[90], Dbl[priority]))
        c1 == IF emails # <<>> THEN FAdd(c0, Dbl[20]) ELSE c0
        c2 == IF phones # <<>> THEN FAdd(c1, Dbl[10]) ELSE c1
        c3 == IF social_media # <<>> THEN FAdd(c2, Dbl[10]) ELSE c2
        c4 == FAdd(c3, Dbl[5])
        c5 == IF Truthy(page.address) THEN FAdd(c4, Dbl[10]) ELSE c4
    IN  [DefaultContact EXCEPT
            !.website = url,
            !.source = "website",
            !.company_name = IF Truthy(page.name) THEN page.name ELSE None,
            !.email = IF emails # <<>> THEN select_best_email(emails) ELSE NoString,
            !.phone = IF phones # <<>> THEN phones[1] ELSE NoString,
            !.social_media = social_media,
            !.form_url = IF page.form THEN url ELSE None,
            !.address = IF Truthy(page.address) THEN page.address ELSE None,
            !.confidence = c5]

\* l.142-185 for the lists emails and phones the two parsers returned; the
\* priority is given in hundredths and is the float Dbl[priority].
ContactOf(url, priority, page, emails, phones) ==
    LET social_media == extract_social_media(page)
        c0 == FMax(Dbl[30], FMin(Dbl[90], Dbl[priority]))
        c1 == IF emails # <<>> THEN FAdd(c0, Dbl[20]) ELSE c0
        c2 == IF phones # <<>> THEN FAdd(c1, Dbl[10]) ELSE c1
        c3 == IF social_media # <<>> THEN FAdd(c2, Dbl[10]) ELSE c2
        c4 == IF page.form THEN FAdd(c3, Dbl[5]) ELSE c3
        c5 == IF Truthy(page.address) THEN FAdd(c4, Dbl[10]) ELSE c4
    IN  [DefaultContact EXCEPT
            !.website = url,
            !.source = "website",
            !.company_name = IF Truthy(page.name) THEN page.name ELSE None,
            !.email = IF emails # <<>> THEN select_best_email(emails) ELSE NoString,
            !.phone = IF phones # <<>> THEN phones[1] ELSE NoString,
            !.social_media = social_media,
            !.form_url = IF page.form THEN url ELSE None,
            !.address = IF Truthy(page.address) THEN page.address ELSE None,
            !.confidence = c5]

\* extract_contacts_from_page(url, priority) on a page that was fetched and
\* parsed: every Contact the call can return.
extract_contacts_from_page(url, priority, page) ==
    {ContactOf(url, priority, page, emails, phones) :
        emails \in extract_emails(page), phones \in extract_phones(page)}

\* --- the calls of the model ---

MaxHrefs == 3        \* <a href> elements of a page
MaxPerSource == 1    \* e-mails or phones a page gives by one way of finding them
MaxEmails == 3       \* length of the list given to _select_best_email
MaxPrefix == 4       \* characters before the body of a phone string

Call(fn) == [fn |-> fn]
Returned(fn) == epc = "returned" /\ arg.fn = fn

\* _extract_social_media(soup)
InitSocial ==
    /\ arg = Call("_extract_social_media")
    /\ \E a \in SeqsUpTo(Hrefs, MaxHrefs) : soup = Soup(a, NoEmails, NoPhones, FALSE, None, None)

\* _clean_phone(phone): a prefix over the characters the rewriting looks at,
\* then a body.
PrefixChars == {"0", "3", "+", "(", " "}
PhoneBodies == {<<>>, <<" ", "1", " ", "2", "3", " ", "4", "5", " ", "6", "7", " ", "8", "9">>, <<".", "1", "2", "-", "3", "4", "/", "x", ")">>}
InitCleanPhone ==
    /\ soup = NoSoup
    /\ \E prefix \in SeqsUpTo(PrefixChars, MaxPrefix), body \in PhoneBodies :
          arg = [fn |-> "_clean_phone", phone |-> prefix \o body]

\* _extract_phones(soup)
TextPhones == {Phone0123, Phone0033, PhoneShort}
InitPhones ==
    /\ arg = Call("_extract_phones")
    /\ \E tel \in SeqsUpTo(RawPhones, MaxPerSource), text \in SeqsUpTo(TextPhones, MaxPerSource),
          data \in SeqsUpTo(RawPhones, MaxPerSource) :
          soup = Soup(<<>>, NoEmails, PhoneSources(tel, text, data), FALSE, None, None)

\* _is_valid_email(email)
EmailStrings ==
    {<<>>, EmailContact, EmailAdmin, EmailSales, EmailInfoContact, EmailTest, EmailUser,
     EmailExample, EmailNoAt, EmailBadShape, EmailLong50, EmailLong51}
InitValidEmail ==
    /\ soup = NoSoup
    /\ \E email \in EmailStrings : arg = [fn |-> "_is_valid_email", email |-> email]

\* _select_best_email(emails)
RankedEmails ==
    {EmailContact, EmailAdmin, EmailNoreply, EmailInfo, EmailJean, EmailDirection,
     EmailSales, EmailInfoContact}
InitSelectEmail ==
    /\ soup = NoSoup
    /\ \E emails \in SeqsUpTo(RankedEmails, MaxEmails) :
          arg = [fn |-> "_select_best_email", emails |-> emails]

\* _extract_emails(soup)
MailtoStrings == {MailtoContact, MailtoTest, EmailNoAt}
TextMatches == {TextJeanAt, TextUserAt}
DataEmails == {<<>>, EmailAdmin, EmailExample, EmailBadShape, EmailLong50, EmailLong51}
ScriptPairs == {<<<<"i", "n", "f", "o">>, <<"a", "c", "m", "e", ".", "f", "r">>>>, <<<<"u", "s", "e", "r">>, <<"a", "c", "m", "e", ".", "f", "r">>>>}
InitEmails ==
    /\ arg = Call("_extract_emails")
    /\ \E mailto \in SeqsUpTo(MailtoStrings, MaxPerSource), text \in SeqsUpTo(TextMatches, MaxPerSource),
          data \in SeqsUpTo(DataEmails, MaxPerSource), js \in SeqsUpTo(ScriptPairs, MaxPerSource) :
          soup = Soup(<<>>, EmailSources(mailto, text, data, js), NoPhones, FALSE, None, None)

\* extract_contacts_from_page(url, priority): the pages and the priorities
\* (in hundredths) of the model.
PagePriorities == {0, 20, 30, 50, 80, 90, 120}
PageLinks == {<<>>, <<Href(101, FALSE, {"linkedin"}), Href(103, FALSE, {"facebook"})>>}
PageEmails ==
    {NoEmails,
     EmailSources(<<MailtoContact>>, <<>>, <<EmailAdmin>>, <<>>),
     EmailSources(<<MailtoTest>>, <<TextUserAt>>, <<EmailLong51>>, <<>>),
     EmailSources(<<EmailNoAt>>, <<TextJeanAt>>, <<EmailExample>>, <<>>)}
PagePhones ==
    {NoPhones,
     PhoneSources(<<Phone0123>>, <<Phone0033>>, <<>>),
     PhoneSources(<<PhoneShort>>, <<>>, <<>>)}
InitPage ==
    /\ \E priority \in PagePriorities : 
          arg = [fn |-> "extract_contacts_from_page", url |-> 5003, priority |-> priority]
    /\ \E a \in PageLinks, emails \in PageEmails, phones \in PagePhones,
          form \in BOOLEAN, address \in {None, 5005}, name \in {None, 5004} :
          soup = Soup(a, emails, phones, form, address, name)

InitExtract ==
    /\ epc = "call"
    /\ ret = None
    /\ \/ InitSocial
       \/ InitCleanPhone
       \/ InitPhones
       \/ InitValidEmail
       \/ InitSelectEmail
       \/ InitEmails
       \/ InitPage

ExtractSocialMedia ==
    /\ epc = "call" /\ arg.fn = "_extract_social_media"
    /\ ret' = extract_social_media(soup)
    /\ epc' = "returned"
    /\ UNCHANGED <<soup, arg, rvars, pvars, cvars, mvars, evars>>

CleanPhone ==
    /\ epc = "call" /\ arg.fn = "_clean_phone"
    /\ ret' = clean_phone(arg.phone)
    /\ epc' = "returned"
    /\ UNCHANGED <<soup, arg, rvars, pvars, cvars, mvars, evars>>

ExtractPhones ==
    /\ epc = "call" /\ arg.fn = "_extract_phones"
    /\ ret' \in extract_phones(soup)
    /\ epc' = "returned"
    /\ UNCHANGED <<soup, arg, rvars, pvars, cvars, mvars, evars>>

IsValidEmail ==
    /\ epc = "call" /\ arg.fn = "_is_valid_email"
    /\ ret' = is_valid_email(arg.email)
    /\ epc' = "returned"
    /\ UNCHANGED <<soup, arg, rvars, pvars, cvars, mvars, evars>>

SelectBestEmail ==
    /\ epc = "call" /\ arg.fn = "_select_best_email"
    /\ ret' = select_best_email(arg.emails)
    /\ epc' = "returned"
    /\ UNCHANGED <<soup, arg, rvars, pvars, cvars, mvars, evars>>

ExtractEmails ==
    /\ epc = "call" /\ arg.fn = "_extract_emails"
    /\ ret' \in extract_emails(soup)
    /\ epc' = "returned"
    /\ UNCHANGED <<soup, arg, rvars, pvars, cvars, mvars, evars>>

\* l.134-137 and l.186-188: nothing was fetched, or the parsing raised.
ExtractPageReturnsNone ==
    /\ epc = "call" /\ arg.fn = "extract_contacts_from_page"
    /\ ret' = NoContact
    /\ epc' = "returned"
    /\ UNCHANGED <<soup, arg, rvars, pvars, cvars, mvars, evars>>

ExtractContactsFromPage ==
    /\ epc = "call" /\ arg.fn = "extract_contacts_from_page"
    /\ ret' \in extract_contacts_from_page(arg.url, arg.priority, soup)
    /\ epc' = "returned"
    /\ UNCHANGED <<soup, arg, rvars, pvars, cvars, mvars, evars>>

\* _infer_content_type_from_url(url): URLs of the site with a path of up to
\* two words.
PathWords == {"contact", "contacts", "contacter", "nous", "about", "us", "legal",
              "terms", "team", "staff", "blog"}
MaxPathWords == 2

InitInfer ==
    /\ epc = "call"
    /\ ret = None
    /\ soup = NoSoup
    /\ \E path \in SeqsUpTo(PathWords, MaxPathWords) :
          arg = [fn |-> "_infer_content_type_from_url", url |-> U("site", path)]

InferContentType ==
    /\ epc = "call" /\ arg.fn = "_infer_content_type_from_url"
    /\ ret' = infer_content_type_from_url(arg.url)
    /\ epc' = "returned"
    /\ UNCHANGED <<soup, arg, rvars, pvars, cvars, mvars, evars>>

IdleExtract ==
    /\ epc = "idle"
    /\ soup = NoSoup
    /\ arg = None
    /\ ret = None

----------------------------------------------------------------------------
(* Specifications *)

\* _get_all_sitemap_urls alone.
StartResolve == InitResolve /\ IdlePages /\ IdleCrawl /\ IdleMerge /\ IdleExtract /\ IdleEnrich
SpecResolve == StartResolve /\ [][NextResolve]_vars

\* The same loop as a thread that keeps running: an iteration that can be
\* made is made (every fetch ends, by its answer or by the timeout).
SpecResolveFair == StartResolve /\ [][NextResolve]_vars /\ WF_vars(NextResolve)

\* _merge_contacts alone.
StartMerge == InitMerge /\ IdleResolve /\ IdlePages /\ IdleCrawl /\ IdleExtract /\ IdleEnrich
NextMerge == MergeContacts
SpecMerge == StartMerge /\ [][NextMerge]_vars

\* The two entry points, find_important_pages (after the resolver) and
\* find_contacts.
StartEntry ==
    (InitPages \/ (InitContacts /\ IdleCrawl /\ IdleResolve)) /\ IdleMerge /\ IdleExtract /\ IdleEnrich
Next ==
    \/ BranchToCrawl
    \/ SubmitPages
    \/ StartTask
    \/ WorkerReturnsNone
    \/ WorkerRaises
    \/ WorkerAnalyzes
    \/ CollectResult
    \/ CollectRaised
    \/ ClusterRaises
    \/ ClusterAndReturn
    \/ CrawlSkip
    \/ CrawlDenied
    \/ CrawlFetchFails
    \/ CrawlRecord
    \/ CrawlLoopExit
    \/ CrawlReturn
    \/ FcStart
    \/ ExtractReturnsNone
    \/ Extracts
    \/ ExtractSingle
    \/ FcMerge
    \/ FcStep6
    \/ EnrichCall
    \/ ProbeFindsNothing
    \/ ProbeReadsPage
    \/ EnrichGuess
    \/ FcReturn
Spec == StartEntry /\ [][Next]_vars

\* The frontier loop of _discover_pages_by_crawling alone, up to the
\* submission of the discovered pages.  The loop is sequential code that keeps
\* running (every fetch has a timeout): a step that can be taken is taken.
StartCrawl == InitCrawl /\ IdleMerge /\ IdleExtract /\ IdleEnrich
NextCrawl ==
    \/ CrawlSkip
    \/ CrawlDenied
    \/ CrawlFetchFails
    \/ CrawlRecord
    \/ CrawlLoopExit
SpecCrawl == StartCrawl /\ [][NextCrawl]_vars /\ WF_vars(NextCrawl)

\* The parsers of the page extractor, one call each, and
\* extract_contacts_from_page on a parsed page.
StartExtract == InitExtract /\ IdleResolve /\ IdlePages /\ IdleCrawl /\ IdleMerge /\ IdleEnrich
NextExtract ==
    \/ ExtractSocialMedia
    \/ CleanPhone
    \/ ExtractPhones
    \/ IsValidEmail
    \/ SelectBestEmail
    \/ ExtractEmails
    \/ ExtractPageReturnsNone
    \/ ExtractContactsFromPage
SpecExtract == StartExtract /\ [][NextExtract]_vars

\* One call of _infer_content_type_from_url.
StartInfer == InitInfer /\ IdleResolve /\ IdlePages /\ IdleCrawl /\ IdleMerge /\ IdleEnrich
NextInfer ==
    \/ InferContentType
SpecInfer == StartInfer /\ [][NextInfer]_vars

\* _enrich_contact_from_alternative_sources, called on a Contact or on None.
StartEnrich == InitEnrich /\ IdleResolve /\ IdlePages /\ IdleCrawl /\ IdleExtract
NextEnrich ==
    \/ EnrichCall
    \/ ProbeFindsNothing
    \/ ProbeReadsPage
    \/ EnrichGuess
SpecEnrich == StartEnrich /\ [][NextEnrich]_vars

----------------------------------------------------------------------------
(* Properties of the sitemap resolver *)

C3_PriorityIsRawPlusBonus ==
    \A i \in 1..Len(all_page_infos) :
        all_page_infos[i].content_type \in {"contact", "about"}
            => all_page_infos[i].priority = all_page_infos[i].raw + CategoryBonus

Failed(u) == outcome[u] \in {"fail", "malformed_leaf", "malformed_index"}

C10_MalformedEntriesRecovered ==
    (lastDoc.kind \in {"leaf", "index"} /\ ~lastDoc.wf)
        => Range(lastDoc.locs) \subseteq Range(lastOut)

----------------------------------------------------------------------------
(* Properties of the contact merger *)

\* The input that wins field f: among the inputs with a non-empty f, the one
\* of highest confidence, the earliest in input order among equals; 0 if none.
Winner(f) ==
    LET having == {i \in 1..Len(contacts) : Truthy(contacts[i][f])}
    IN  IF having = {} THEN 0
        ELSE CHOOSE i \in having : \A j \in having \ {i} :
                \/ contacts[i].confidence > contacts[j].confidence
                \/ contacts[i].confidence = contacts[j].confidence /\ i < j

\* C2: merging two or more Contacts, each of email, phone, address, website
\* and formUrl is the value of the first contact in confidence-descending
\* order that has a non-empty value for it, decided per field.
C2_PerFieldFirstNonEmpty ==
    (mpc = "returned" /\ Len(contacts) >= 2) =>
        \A f \in Fields :
            final_contact[f] = IF Winner(f) = 0 THEN None ELSE contacts[Winner(f)][f]

\* A merge whose email and phone come from different inputs, the phone from
\* one of lower confidence, the inputs not given in confidence order.
C2_Witness ==
    /\ mpc = "returned" /\ Len(contacts) >= 2
    /\ Winner("email") # 0 /\ Winner("phone") # 0
    /\ contacts[Winner("phone")].confidence < contacts[Winner("email")].confidence
    /\ Winner("email") > 1
    /\ final_contact.email = contacts[Winner("email")].email
    /\ final_contact.phone = contacts[Winner("phone")].phone

----------------------------------------------------------------------------
(* Properties of the worker pools *)

PoolRan == pool_owner \in {"analyze", "crawl", "contacts"}
PoolOver == pc \in {"returned", "raised", "fc_merged", "fc_enrich", "fc_returned"}
Succeeded(i) == futures[i].state = "collected" /\ futures[i].kind = "ok"
FailedTask(i) == futures[i].kind \in {"none", "raised"}

\* C4: in each of the three pools a task that fails (it raises, or it logs
\* its error and returns None) adds nothing to the collected list, every
\* other task still runs to completion and is collected, and the result of
\* every successful task is in the list.
C4_TaskFailureIsIsolated ==
    PoolRan =>
        /\ Len(collected) = pool_base +
               Cardinality({i \in 1..Len(futures) : Succeeded(i)})
        /\ \A i \in 1..Len(futures) :
               Succeeded(i) =>
                   \E k \in (pool_base + 1)..Len(collected) :
                       IF pool_owner = "contacts"
                       THEN collected[k].website = futures[i].value.website
                       ELSE collected[k].url = tasks[i].url
        /\ PoolOver => AllCollected

\* A crawl that returned although one task of its pool raised, with the
\* page of a sibling task in the result.
C4_Witness ==
    /\ pc = "returned" /\ pool_owner = "crawl"
    /\ \E i \in 1..Len(futures) : futures[i].kind = "raised"
    /\ \E j \in 1..Len(futures) : Succeeded(j)
    /\ Len(result.all_analyzed) = 1

\* C5: find_important_pages does not raise because pages failed: on a site
\* with candidates enough for the clusters, whatever pages fail to be
\* fetched or analyzed, the call does not end in an exception.
C5_PageFailureNeverAborts ==
    (/\ pool_owner = "analyze"
     /\ Len(tasks) >= n_clusters
     /\ \E i \in 1..Len(futures) : FailedTask(i))
        => pc # "raised"

----------------------------------------------------------------------------
(* Properties of the crawl fallback *)

CrawlTaken ==
    \/ pc \in {"crawl_loop", "crawl_pool"}
    \/ pool_owner = "crawl"
    \/ to_visit # <<>> \/ visited # {} \/ discovered_pages # <<>>

\* C7: find_important_pages crawls only when the resolver returned no page.
C7_CrawlOnlyWhenResolverEmpty ==
    CrawlTaken => all_page_infos = <<>>

\* A call that returned the pages of a crawl.
C7_Witness ==
    /\ pc = "returned" /\ pool_owner = "crawl"
    /\ all_page_infos = <<>>
    /\ result.all_analyzed # <<>>

\* C6: a link whose href holds a contact keyword goes to the front of the
\* frontier and every other link to the back, so that on the frontier every
\* keyword link stands before every other entry, the links found on the
\* same page included: it is popped first.
C6_KeywordLinksPoppedFirst ==
    \A i, j \in 1..Len(to_visit) :
        (to_visit[i].kw /\ ~to_visit[j].kw) => i < j

\* The loop is about to pop a keyword link while a link found before it on
\* the same page, without keyword, waits behind.
C6_Witness ==
    /\ LoopRuns
    /\ to_visit[1].kw
    /\ \E j \in 2..Len(to_visit) :
          /\ ~to_visit[j].kw
          /\ to_visit[j].src = to_visit[1].src
          /\ to_visit[j].pos < to_visit[1].pos

\* C8: the crawl loop ends; the number of discovered pages never exceeds
\* max_pages; and when the loop has ended the frontier is empty or the
\* number of discovered pages is max_pages.
C8_CrawlLoopTerminates ==
    /\ [](Len(discovered_pages) <= max_pages)
    /\ [](pc = "crawl_pool" =>
             (to_visit = <<>> \/ Len(discovered_pages) = max_pages))
    /\ <>(pc = "crawl_pool")

\* The loop ended on the page budget with a URL never visited still on the
\* frontier.
C8_Witness ==
    /\ pc = "crawl_pool"
    /\ Len(discovered_pages) = max_pages
    /\ \E i \in 1..Len(to_visit) : to_visit[i].url \notin visited

----------------------------------------------------------------------------
(* Properties of page analysis *)

\* The pages a page pool holds or has handed on.
PagesSeen ==
    IF pool_owner \in {"analyze", "crawl"}
    THEN Range(tasks) \cup Range(collected) \cup Range(result.all_analyzed)
             \cup Range(result.contact_pages) \cup Range(result.about_pages)
    ELSE {}

KeepsUrlType ==
    \A p \in PagesSeen :
        infer_content_type_from_url(p.url) # "unknown"
            => p.content_type = infer_content_type_from_url(p.url)

\* A step leaves the content type of every analyzed page as it is, in the
\* task list and in what is collected and returned.
AnalyzedTypeFrozen ==
    (pool_owner \in {"analyze", "crawl"} /\ pool_owner' = pool_owner) =>
        /\ \A i \in 1..Len(futures) :
              futures[i].state \in {"done", "collected"}
                  => tasks'[i].content_type = tasks[i].content_type
        /\ \A p \in Range(collected') \cup Range(result'.all_analyzed)
                      \cup Range(result'.contact_pages) \cup Range(result'.about_pages) :
              \E i \in 1..Len(tasks) :
                  tasks[i].url = p.url /\ tasks'[i].content_type = p.content_type

\* C11: a page whose content type URL inference set to a value other than
\* unknown keeps it through analysis (content inference writes the type only
\* while it is unknown), and once a page is analyzed no later step changes
\* its content type.
C11_UrlTypeSurvivesAnalysis ==
    /\ []KeepsUrlType
    /\ [][AnalyzedTypeFrozen]_vars

\* find_important_pages returned a page that URL inference typed about and
\* analysis left so, next to a page of unknown URL type that analysis typed
\* contact.
C11_Witness ==
    /\ pc = "returned" /\ pool_owner = "analyze"
    /\ \E p \in Range(result.all_analyzed) :
          infer_content_type_from_url(p.url) = "about" /\ p.content_type = "about"
    /\ \E q \in Range(result.all_analyzed) :
          infer_content_type_from_url(q.url) = "unknown" /\ q.content_type = "contact"


----------------------------------------------------------------------------
(* Merging no Contact or a single Contact *)

\* C12: _merge_contacts returns None for an empty list, and for a list of one
\* Contact it returns that Contact itself, with every field (source, fax and
\* confidence included) as it was.
C12_EmptyAndSingleMerge ==
    mpc = "returned" =>
        /\ Len(contacts) = 0 => final_contact = NoContact
        /\ Len(contacts) = 1 => final_contact = contacts[1]

\* A single official Contact, whose fax and source differ from the defaults,
\* came back unchanged.
C12_Witness ==
    /\ mpc = "returned"
    /\ Len(contacts) = 1
    /\ contacts[1].fax # None
    /\ contacts[1].source = "api_entreprise"
    /\ contacts[1].email = EmptyStr
    /\ final_contact = contacts[1]


----------------------------------------------------------------------------
(* The social map of a merge *)

\* The input that gives platform p: among the inputs whose social map has p,
\* the one of highest confidence, the earliest in input order among equals.
SocialWinner(p) ==
    LET having == {i \in 1..Len(contacts) : p \in DOMAIN contacts[i].social_media}
    IN  CHOOSE i \in having : \A j \in having \ {i} :
            \/ contacts[i].confidence > contacts[j].confidence
            \/ contacts[i].confidence = contacts[j].confidence /\ i < j

\* C13: merging two or more Contacts, the social map of the result has exactly
\* the platforms that occur in some input, and for each platform the URL of
\* the first contact in confidence-descending order that has it.
C13_SocialMapIsFirstWinsUnion ==
    (mpc = "returned" /\ Len(contacts) >= 2) =>
        /\ DOMAIN final_contact.social_media =
               UNION {DOMAIN contacts[i].social_media : i \in 1..Len(contacts)}
        /\ \A p \in DOMAIN final_contact.social_media :
               final_contact.social_media[p] = contacts[SocialWinner(p)].social_media[p]

\* Two inputs share linkedin, the more confident one comes later in the input
\* and gives the URL; facebook comes from the less confident input alone.
C13_Witness ==
    /\ mpc = "returned"
    /\ Len(contacts) >= 2
    /\ "linkedin" \in DOMAIN contacts[1].social_media
    /\ "linkedin" \in DOMAIN contacts[2].social_media
    /\ "facebook" \in DOMAIN contacts[1].social_media
    /\ "facebook" \notin DOMAIN contacts[2].social_media
    /\ contacts[1].confidence < contacts[2].confidence
    /\ final_contact.social_media["linkedin"] = contacts[2].social_media["linkedin"]
    /\ final_contact.social_media["facebook"] = contacts[1].social_media["facebook"]
    /\ final_contact.social_media["linkedin"] # contacts[1].social_media["linkedin"]


----------------------------------------------------------------------------
(* The pools under every interleaving of their workers *)

\* Entry k of the collected list is the result of task i: the page object of
\* the task (clustering sets its cluster later), or the Contact the task
\* returned, with the company name filled in by the collector.
EntryOf(k, i) ==
    IF pool_owner = "contacts"
    THEN /\ futures[i].kind = "ok"
         /\ LET v == futures[i].value
            IN  collected[k] = IF Truthy(company_name) /\ ~Truthy(v.company_name)
                               THEN [v EXCEPT !.company_name = company_name] ELSE v
    ELSE [collected[k] EXCEPT !.cluster = NoCluster]
             = [tasks[i] EXCEPT !.cluster = NoCluster]

EntriesOf(i) == {k \in (pool_base + 1)..Len(collected) : EntryOf(k, i)}

ExactlyOnePerSuccess ==
    PoolRan =>
        /\ \A i \in 1..Len(futures) :
               Cardinality(EntriesOf(i)) = IF Succeeded(i) THEN 1 ELSE 0
        /\ \A k \in (pool_base + 1)..Len(collected) :
               \E i \in 1..Len(futures) : EntryOf(k, i)
        /\ PoolOver => AllCollected

\* A step in which the worker of task i finishes touches the page and the
\* future of task i only, and not the list of the collector.
WorkerStepIsLocal ==
    \A i \in 1..Len(futures) :
        (/\ futures[i].state = "running"
         /\ DOMAIN futures' = DOMAIN futures
         /\ futures'[i].state = "done") =>
            /\ \A j \in (1..Len(futures)) \ {i} :
                   tasks'[j] = tasks[j] /\ futures'[j] = futures[j]
            /\ collected' = collected

\* C14: whatever the order in which the workers of a pool finish, the
\* collected list holds exactly one entry for each submitted page whose task
\* succeeded and none for a task that failed, so that only the order of the
\* list depends on the interleaving; and no worker writes to the page or
\* the Contact of another task.
C14_InterleavingChangesOrderOnly ==
    /\ []ExactlyOnePerSuccess
    /\ [][WorkerStepIsLocal]_vars

\* An analysis pool that is over: one task failed, and two results stand in
\* the list in the reverse of their submission order.
C14_Witness ==
    /\ pool_owner = "analyze" /\ PoolOver
    /\ \E i \in 1..Len(futures) : FailedTask(i)
    /\ \E i, j \in 1..Len(futures) :
          /\ i < j /\ Succeeded(i) /\ Succeeded(j)
          /\ \E k \in EntriesOf(i), l \in EntriesOf(j) : l < k


----------------------------------------------------------------------------
(* Properties of the page extractor *)

\* The links of the page that count for platform p, in document order.
LinksOf(p) == {i \in 1..Len(soup.a) : ~soup.a[i].skipped /\ PlatformOf(soup.a[i]) = p}

\* C15: for each platform, _extract_social_media keeps the first link in
\* document order whose href matches the platform; a later match does not
\* replace it.
C15_FirstSocialLinkKept ==
    Returned("_extract_social_media") =>
        \A p \in DOMAIN ret :
            ret[p] = soup.a[CHOOSE i \in LinksOf(p) : \A j \in LinksOf(p) : i <= j].href

\* The numbers of the page in discovery order (tel: links, text, data-phone),
\* cleaned, and those of them that are valid.
CleanedInOrder ==
    LET found == Discovered(soup.phones)
    IN  [i \in 1..Len(found) |-> clean_phone(found[i])]
ValidInOrder == SelectSeq(CleanedInOrder, LAMBDA p : is_valid_phone(p))

\* C16: when a page gives several valid phone numbers, the phone of the
\* Contact is the first valid one in discovery order.
C16_FirstDiscoveredPhoneStored ==
    (Returned("extract_contacts_from_page") /\ ret # NoContact /\ ValidInOrder # <<>>) =>
        ret.phone = ValidInOrder[1]

\* The score the table gives an e-mail: the value of a keyword its local part
\* contains (the highest, if it contains several), 5 if it contains none.
TableScore(email) ==
    LET local == Lower(BeforeFirst(email, "@"))
        values == {kv.value : kv \in {x \in Range(email_priority) : Contains(local, x.key)}}
    IN  IF values = {} THEN 5
        ELSE CHOOSE v \in values : \A w \in values : v >= w

\* C17: _select_best_email returns an e-mail of maximal score (contact 10,
\* info 9, hello and bonjour 8, commercial and sales 7, support and service 6,
\* direction 5, admin 4, webmaster 3, noreply and no-reply 1, otherwise 5),
\* and among those of maximal score the earliest of the input.
C17_BestEmailIsEarliestMaximal ==
    (Returned("_select_best_email") /\ arg.emails # <<>>) =>
        \E i \in 1..Len(arg.emails) :
            /\ ret = arg.emails[i]
            /\ \A j \in 1..Len(arg.emails) : TableScore(arg.emails[j]) <= TableScore(ret)
            /\ \A j \in 1..(i - 1) : TableScore(arg.emails[j]) < TableScore(ret)

\* admin@, contact@, noreply@ gives contact@.
C17_Witness ==
    /\ Returned("_select_best_email")
    /\ arg.emails = <<EmailAdmin, EmailContact, EmailNoreply>>
    /\ ret = EmailContact

DigitCount(s) == Cardinality({i \in 1..Len(s) : s[i] \in Digits})

\* C18: _clean_phone removes every character that is not a digit, '+', '('
\* or ')', and rewrites a leading 0033 and a leading bare 33 to +33; a cleaned
\* number of fewer than 8 digits is not in the list _extract_phones returns.
C18_PhoneCleanedAndShortDropped ==
    /\ Returned("_clean_phone") =>
          LET kept == SelectSeq(arg.phone, LAMBDA c : c \in Digits \/ c \in {"+", "(", ")"})
              plus33 == <<"+", "3", "3">>
          IN  /\ \A i \in 1..Len(ret) : ret[i] \in Digits \cup {"+", "(", ")"}
              /\ IF StartsWith(kept, <<"0", "0", "3", "3">>)
                 THEN ret = plus33 \o SubSeq(kept, 5, Len(kept))
                 ELSE IF StartsWith(kept, <<"3", "3">>)
                 THEN ret = plus33 \o SubSeq(kept, 3, Len(kept))
                 ELSE ret = kept
    /\ Returned("_extract_phones") =>
          /\ \A i \in 1..Len(ret) : DigitCount(ret[i]) >= 8
          /\ \A i \in 1..Len(CleanedInOrder) :
                 CleanedInOrder[i] \in Range(ret) <=> DigitCount(CleanedInOrder[i]) >= 8

\* "0033 1 23 45 67 89" was cleaned to "+33123456789".
C18_Witness ==
    /\ Returned("_clean_phone")
    /\ arg.phone = Phone0033
    /\ ret = PhonePlus33

\* What the validator is said to reject: no '@', more than 50 characters, or
\* one of the tokens example, test, user.
SaidRejected(email) ==
    \/ \A i \in 1..Len(email) : email[i] # "@"
    \/ Len(email) > 50
    \/ \E token \in {<<"e", "x", "a", "m", "p", "l", "e">>, <<"t", "e", "s", "t">>, <<"u", "s", "e", "r">>} :
          \E i \in 1..Len(email) :
              i + Len(token) - 1 <= Len(email) /\ SubSeq(email, i, i + Len(token) - 1) = token

\* C19: _is_valid_email rejects a string without '@', of more than 50
\* characters, or holding one of the tokens example, test, user; no such
\* string is in the list _extract_emails returns, nor is it the email of a
\* Contact that extract_contacts_from_page returns.
C19_RejectedEmailsNeverExtracted ==
    /\ (Returned("_is_valid_email") /\ SaidRejected(arg.email)) => ret = FALSE
    /\ Returned("_extract_emails") => \A i \in 1..Len(ret) : ~SaidRejected(ret[i])
    /\ (Returned("extract_contacts_from_page") /\ ret # NoContact) =>
          (ret.email # NoString => ~SaidRejected(ret.email))

\* A page whose mailto gives test@..., whose data-email has 51 characters and
\* whose text gives jean@acme.fr: only the last one is returned.
C19_Witness ==
    /\ Returned("_extract_emails")
    /\ soup.emails.mailto = <<MailtoTest>>
    /\ soup.emails.data = <<EmailLong51>>
    /\ soup.emails.text = <<TextJeanAt>>
    /\ ret = <<EmailJean>>

\* The sum the claim describes, in hundredths: the priority clamped to
\* [30, 90], and the bonus of every field the Contact has.
DecimalSum ==
    (IF arg.priority < 30 THEN 30 ELSE IF arg.priority > 90 THEN 90 ELSE arg.priority)
        + (IF ret.email # NoString THEN 20 ELSE 0)
        + (IF ret.phone # NoString THEN 10 ELSE 0)
        + (IF ret.social_media # <<>> THEN 10 ELSE 0)
        + (IF ret.form_url # None THEN 5 ELSE 0)
        + (IF ret.address # None THEN 10 ELSE 0)

\* x and y differ by at most d units of 2^-57.
Within(x, y, d) ==
    /\ x.hi - y.hi \in {-1, 0, 1}
    /\ LET diff == (x.hi - y.hi) * Limb + (x.lo - y.lo)
       IN  diff <= d /\ -diff <= d

PageContactReturned == Returned("extract_contacts_from_page") /\ ret # NoContact

\* The claim as it stands: the confidence of an extracted Contact is the
\* priority clamped to [0.3, 0.9] plus 0.2 for an email, 0.1 for a phone, 0.1
\* for social links, 0.05 for a form and 0.1 for an address, and so within
\* [0.3, 1.45].
C20_ConfidenceIsDecimalSum ==
    PageContactReturned =>
        /\ ret.confidence = Dbl[DecimalSum]
        /\ FLe(Dbl[30], ret.confidence) /\ FLe(ret.confidence, Dbl[145])

\* 1.4500000000000004, the float sum 0.9 + 0.2 + 0.1 + 0.1 + 0.05 + 0.1:
\* two doubles above 1.45.
MaxConfidence == F(Dbl[145].hi, Dbl[145].lo + 64)

\* C20: the confidence of an extracted Contact is the float sum of the
\* priority clamped to [0.3, 0.9] and of 0.2 for an email, 0.1 for a phone,
\* 0.1 for social links, 0.05 for a form and 0.1 for an address, each added at
\* most once and only when the field is set; it is the decimal sum up to the
\* rounding of the additions (at most 2^-51), and so within
\* [0.3, 1.4500000000000004].
C20_ConfidenceIsFloatSum ==
    PageContactReturned =>
        /\ Within(ret.confidence, Dbl[DecimalSum], 64)
        /\ FLe(Dbl[30], ret.confidence) /\ FLe(ret.confidence, MaxConfidence)

\* A page of priority 1.2 with every field: the confidence is
\* 1.4500000000000004.
C20_Witness ==
    /\ PageContactReturned
    /\ arg.priority = 120
    /\ DecimalSum = 145
    /\ ret.confidence = MaxConfidence
    /\ ~FLe(ret.confidence, Dbl[145])


(* C21 *)

\* The two cases the claim names: no Contact, or a Contact with an email and
\* a phone.
C21_NothingToEnrich ==
    IF final_contact = NoContact THEN TRUE
    ELSE Truthy(final_contact.email) /\ Truthy(final_contact.phone)

C21_CallReturnsAtOnce ==
    (npc = "call" /\ C21_NothingToEnrich)
        => /\ npc' = "returned"
           /\ final_contact' = final_contact
           /\ fetched' = fetched
           /\ potential_emails' = potential_emails

\* C21: called without a Contact, or with a Contact that has both an email
\* and a phone, the enrichment returns in its first step with no call of
\* _fetch_url, every field of the Contact (confidence included) as it was
\* and no potential_emails; an absent Contact never has a fetch made for it.
C21_NoOpWhenAbsentOrComplete ==
    /\ [][C21_CallReturnsAtOnce]_vars
    /\ []((npc = "returned" /\ C21_NothingToEnrich /\ fetched = 0)
              => potential_emails = <<>>)
    /\ []((npc # "idle" /\ final_contact = NoContact) => fetched = 0)

\* A Contact with a company name, an email and a phone went through the
\* function, and nothing was fetched.
C21_Witness ==
    /\ npc = "returned"
    /\ final_contact # NoContact
    /\ Truthy(final_contact.company_name)
    /\ Truthy(final_contact.email)
    /\ Truthy(final_contact.phone)
    /\ fetched = 0


(* C22 *)

\* The function went past its early returns: the probes of the directories
\* were run for this call.
C22_Probed ==
    /\ npc \in {"probe", "guess", "returned"}
    /\ contact_at_call # NoContact
    /\ Truthy(contact_at_call.company_name)
    /\ ~(Truthy(contact_at_call.email) /\ Truthy(contact_at_call.phone))

C22_NewlyFilled ==
    (IF final_contact.email # contact_at_call.email THEN 1 ELSE 0)
    + (IF final_contact.phone # contact_at_call.phone THEN 1 ELSE 0)

C22_Guessed == potential_emails # <<>>

C23_Order == <<"contact", "about", "legal", "team">>

C23_WholeWordMatch(url, category) ==
    CASE category = "contact" -> HasWord(url, {"contact"}) \/ HasPair(url, "nous", "contacter")
      [] category = "about" -> HasWord(url, {"propos", "about"}) \/ HasPair(url, "qui", "sommes")
      [] category = "legal" -> HasWord(url, {"legal", "mentions", "terms"})
      [] category = "team" -> HasWord(url, {"equipe", "team", "staff"})

C23_Matching(url) == {i \in 1..4 : C23_WholeWordMatch(url, C23_Order[i])}

\* C23: the result is the first of contact, about, legal, team that has a
\* whole-word keyword in the path; the patterns decide only when there is
\* none, and the result is unknown exactly when both passes find nothing.
C23_FirstWholeWordCategoryThenPatterns ==
    Returned("_infer_content_type_from_url") =>
        LET matching == C23_Matching(arg.url)
        IN  /\ matching # {}
                => \E i \in matching : /\ ret = C23_Order[i]
                                       /\ \A j \in matching : i <= j
            /\ matching = {} => ret = PatternPass(arg.url)
            /\ ret = "unknown" <=> (matching = {} /\ PatternPass(arg.url) = "unknown")

\* A path with a keyword of team and then one of legal was classified, and
\* the patterns alone would have said team.
C23_Witness ==
    /\ Returned("_infer_content_type_from_url")
    /\ arg.url.path = <<"team", "legal">>
    /\ PatternPass(arg.url) = "team"
    /\ ret = "legal"


(* C24 *)

\* A step of the loop that records its node.
C24_Records == discovered_pages' # discovered_pages

C24_RecordAtMaxDepthAddsNoLink ==
    (pc = "crawl_loop" /\ C24_Records) =>
        /\ Head(to_visit).depth <= max_depth
        /\ discovered_pages'
              = Append(discovered_pages, CrawledPage(Head(to_visit).url, Head(to_visit).depth))
        /\ Head(to_visit).depth = max_depth => to_visit' = Tail(to_visit)

\* C24: a node taken from the frontier at depth max_depth can be recorded,
\* and the step that records it puts none of its links on the frontier; no
\* entry of the frontier and no recorded page has a depth above max_depth.
C24_DepthNeverAboveMax ==
    /\ [](\A i \in 1..Len(to_visit) : to_visit[i].depth <= max_depth)
    /\ [][C24_RecordAtMaxDepthAddsNoLink]_vars

\* A page reached at depth max_depth is among the recorded pages (its
\* priority is 0.5 - max_depth * 0.1).
C24_Witness ==
    /\ pc = "crawl_loop"
    /\ \E i \in 1..Len(discovered_pages) :
          /\ discovered_pages[i].content_type = "unknown"
          /\ discovered_pages[i].priority = 50 - max_depth * 10


(* C25 *)

C25_Recorded == {discovered_pages[i].url : i \in 1..Len(discovered_pages)}

\* One iteration of the loop.  The fetch is made in the iterations that go
\* past the robots test, which are among those that add the URL to visited.
C25_IterationHandlesNewUrlOnly ==
    (LoopRuns /\ pc' = "crawl_loop") =>
        LET url == Head(to_visit).url
        IN  /\ url \in visited
                => visited' = visited /\ discovered_pages' = discovered_pages
            /\ url \notin visited => visited' = visited \cup {url}
            /\ discovered_pages' # discovered_pages
                => /\ url \notin visited
                   /\ Len(discovered_pages') = Len(discovered_pages) + 1
                   /\ discovered_pages'[Len(discovered_pages')].url = url

\* C25: a URL is handled (tested against robots.txt, fetched, recorded) in
\* at most one iteration, the first that takes it from the frontier, however
\* often and at whatever depths it was put there: every recorded URL is
\* recorded once, and a URL that was denied or not fetched is never handled
\* again.
C25_EachUrlHandledOnce ==
    /\ [](\A i, j \in 1..Len(discovered_pages) :
             discovered_pages[i].url = discovered_pages[j].url => i = j)
    /\ [](C25_Recorded \subseteq visited)
    /\ [][C25_IterationHandlesNewUrlOnly]_vars
    /\ [][\A url \in visited \ C25_Recorded :
             \A i \in 1..Len(discovered_pages') : discovered_pages'[i].url # url]_vars

\* A URL that was denied or not fetched is on the frontier again, at the
\* head, while the loop goes on.
C25_Witness ==
    /\ LoopRuns
    /\ Head(to_visit).url \in visited \ C25_Recorded
    /\ discovered_pages # <<>>


(* C26 *)

C26_OnSite(url) == url.netloc = base_url.netloc

\* C26: every entry of the frontier, every URL handled by the loop and every
\* recorded page has the network location of base_url; the links to another
\* network location that the crawled pages hold are on none of the three.
C26_OnlySameNetloc ==
    /\ \A i \in 1..Len(to_visit) : C26_OnSite(to_visit[i].url)
    /\ \A url \in visited : C26_OnSite(url)
    /\ \A i \in 1..Len(discovered_pages) : C26_OnSite(discovered_pages[i].url)
    /\ \A url \in offsite_links :
          /\ ~C26_OnSite(url)
          /\ url \notin visited
          /\ \A i \in 1..Len(to_visit) : to_visit[i].url # url

\* A crawled page held a link to another network location and a link of the
\* site: the second is on the frontier.
C26_Witness ==
    /\ pc = "crawl_loop"
    /\ Offsite \in offsite_links
    /\ to_visit # <<>>


(* C27 *)

C27_Clustered == result # NoResult /\ result.has_themes

C27_OfTypeContact == SelectSeq(result.all_analyzed, LAMBDA p : p.content_type = "contact")

C27_KeywordClusters ==
    {c \in DOMAIN result.cluster_themes :
        Range(result.cluster_themes[c]) \cap contact_keywords # {}}

\* C27: in the record find_important_pages returns after clustering, when
\* some analyzed page has content_type contact, contact_pages is the list of
\* those pages and holds no other; when none has, contact_pages is the list
\* of the analyzed pages whose cluster has a contact keyword among its themes.
C27_ClusterRescueOnlyWithoutContactPage ==
    C27_Clustered =>
        /\ C27_OfTypeContact # <<>> => result.contact_pages = C27_OfTypeContact
        /\ C27_OfTypeContact = <<>>
              => result.contact_pages
                    = SelectSeq(result.all_analyzed,
                                LAMBDA p : p.cluster \in C27_KeywordClusters)

\* Two returns in one: a page of type contact was found while another page
\* sits in a cluster with a contact keyword among its themes.
C27_Witness ==
    /\ C27_Clustered
    /\ C27_OfTypeContact # <<>>
    /\ \E i \in 1..Len(result.all_analyzed) :
          /\ result.all_analyzed[i].content_type # "contact"
          /\ result.all_analyzed[i].cluster \in C27_KeywordClusters


(* C28 *)

C28_MaxConfidence ==
    CHOOSE m \in {contacts[i].confidence : i \in 1..Len(contacts)} :
        \A i \in 1..Len(contacts) : contacts[i].confidence <= m

\* The first input, in input order, with the highest confidence.
C28_Top ==
    CHOOSE i \in 1..Len(contacts) :
        /\ contacts[i].confidence = C28_MaxConfidence
        /\ \A j \in 1..(i - 1) : contacts[j].confidence < C28_MaxConfidence

\* C28: the merge of two or more Contacts has the highest confidence of the
\* inputs, and the siret and the company_name of the first input that has
\* that confidence, whatever these are and whatever the other inputs hold.
C28_OfficialFieldsFromTopContact ==
    (mpc = "returned" /\ Len(contacts) >= 2) =>
        /\ final_contact.confidence = C28_MaxConfidence
        /\ final_contact.siret = contacts[C28_Top].siret
        /\ final_contact.company_name = contacts[C28_Top].company_name

\* The top input has no siret and no company_name, a lower one has both: the
\* result has none.
C28_Witness ==
    /\ mpc = "returned"
    /\ Len(contacts) >= 2
    /\ ~Truthy(contacts[C28_Top].siret)
    /\ ~Truthy(contacts[C28_Top].company_name)
    /\ \E i \in 1..Len(contacts) :
          /\ contacts[i].confidence < C28_MaxConfidence
          /\ Truthy(contacts[i].siret)
          /\ Truthy(contacts[i].company_name)
    /\ final_contact.siret = None
    /\ final_contact.company_name = None


(* C30 *)

C30_DistinctConfidences(cs) ==
    \A i, j \in 1..Len(cs) : i # j => cs[i].confidence # cs[j].confidence

\* The lists that hold the Contacts of cs in another order.
C30_Permutations(cs) ==
    {[i \in 1..Len(cs) |-> cs[p[i]]] :
        p \in {q \in [1..Len(cs) -> 1..Len(cs)] :
                  \A i, j \in 1..Len(cs) : i # j => q[i] # q[j]}}

\* C30: when no two of the merged Contacts have the same confidence, the
\* Contact the merge returned is the one it returns for the same Contacts in
\* any other order, such as another order of completion of the extraction
\* workers.
C30_MergeIgnoresOrderWithoutTies ==
    (mpc = "returned" /\ npc = "idle" /\ C30_DistinctConfidences(contacts)) =>
        \A other \in C30_Permutations(contacts) : merge_contacts(other) = final_contact

\* Three Contacts with three confidences were merged, given in ascending
\* order, and the result took fields from more than one of them.
C30_Witness ==
    /\ mpc = "returned" /\ npc = "idle"
    /\ Len(contacts) = 3
    /\ contacts[1].confidence < contacts[2].confidence
    /\ contacts[2].confidence < contacts[3].confidence
    /\ final_contact.email # contacts[3].email
    /\ final_contact.phone = contacts[3].phone
    /\ Truthy(final_contact.email) /\ Truthy(final_contact.phone)


(* C29 *)

====
